---- MODULE Spec2Model ----
(***************************************************************************)
(* A model of the E-skills store: the cart aggregate (app/models/cart.py), *)
(* the Stripe webhook settlement (app/routes/payment.py) and the Open edX  *)
(* client (app/utils/edx_api.py).                                          *)
(*                                                                         *)
(* Eight state machines share this module.                                 *)
(*   Spec         the persisted carts and the webhook handler, one request *)
(*                at a time (a request runs to completion before the next).*)
(*   SpecApi      one OpenEdxAPI client instance and the calls made on it, *)
(*                with the remote LMS answering nondeterministically.      *)
(*   SpecCatalog  the course calls of the client (get_course_price,        *)
(*                get_course_details), one call at a time.                 *)
(*   SpecListing  the listing call of the client (get_courses).            *)
(*   SpecPaths    the listing call of CourseAPI, which tries the path      *)
(*                spellings of the courses endpoint in turn.               *)
(*   SpecCheckout the cart requests together with create_payment_intent.   *)
(*   SpecRaces    two cart requests (view, add) served at once, a step     *)
(*                being one query or one commit.                           *)
(*   SpecSettle   two webhook requests served at once, among cart and      *)
(*                checkout requests.                                       *)
(***************************************************************************)
EXTENDS Integers, Sequences, FiniteSets, TLC

VARIABLES
    carts,      \* table carts: carts[id] is the user_id of Cart row id
    items,      \* table cart_items, in insertion order
    ret,        \* the last completed cart operation and what it returned
    wh,         \* the webhook request being handled (or the one just answered)
    enrollLog,  \* the enroll calls the webhook handler has made so far
    api,        \* the OpenEdxAPI instance: access_token and csrf_token
    call,       \* the client call in progress or just returned
    requests    \* the HTTP requests the client call has issued, in order

cartVars == <<carts, items, ret, wh, enrollLog>>
apiVars == <<api, call, requests>>
vars == <<carts, items, ret, wh, enrollLog, api, call, requests>>

----------------------------------------------------------------------------
(* Bounds of the model. *)

\* rows the cart_items table may hold
MaxItems == 2
\* entries of a "modes" list in a pricing response
MaxModes == 2
\* path spellings the path-variant fallback goes through (a prefix of its list)
MaxPaths == 3

----------------------------------------------------------------------------
(* Python values.  A JSON scalar or a Python value is a tagged record, so  *)
(* that None, numbers and strings can sit in the same field.               *)

PyNone == [t |-> "none"]
Str(s) == [t |-> "str", s |-> s]
Num(n) == [t |-> "num", n |-> n]

\* Python truthiness, as used by `if not self.access_token`, `if csrf_token`
Truthy(v) ==
    CASE v.t = "none" -> FALSE
      [] v.t = "str" -> v.s # ""
      [] v.t = "num" -> v.n # 0
      [] OTHER -> TRUE

\* d.get(k, default) on a parsed JSON object (a record whose keys may be absent)
Get(d, k, default) == IF k \in DOMAIN d THEN d[k] ELSE default

\* The outcome of evaluating an expression: a value, or an exception raised.
Ok(v) == [exc |-> FALSE, val |-> v]
Raised(e) == [exc |-> TRUE, err |-> e]

\* str.upper() on the currency codes the model uses
UpperStr(s) ==
    CASE s = "usd" -> "USD"
      [] s = "eur" -> "EUR"
      [] s = "Egp" -> "EGP"
      [] OTHER -> s

\* v.upper(): a str method; None and numbers have no such attribute
Upper(v) == IF v.t = "str" THEN Ok(Str(UpperStr(v.s))) ELSE Raised("AttributeError")

\* float(v): numbers convert, the non-numeric strings of the model and None raise
Float(v) ==
    CASE v.t = "num" -> Ok(v)
      [] v.t = "str" -> Raised("ValueError")
      [] OTHER -> Raised("TypeError")

----------------------------------------------------------------------------
(* HTTP responses of the remote LMS.  status is the status code, written   *)
(* as a string; status "raise" is a transport exception (timeout,          *)
(* connection error) raised by requests instead of a response.             *)

TransportError == [status |-> "raise"]

\* response.json() of a body: bodies carry kind "unparsable", "object" or "list"
Json(body) == IF body.kind = "unparsable" THEN Raised("JSONDecodeError") ELSE Ok(body)

----------------------------------------------------------------------------
(* Credential cache: OpenEdxAPI._get_access_token / _get_csrf_token.       *)

\* OpenEdxAPI.__init__: access_token = '', csrf_token = None
NewApi == [access_token |-> Str(""), csrf_token |-> PyNone]

TokenValues == {"tokA", "tokB"}

\* answers of POST /oauth2/access_token/
TokenResponses ==
    {TransportError}
    \cup {[status |-> "200", body |-> [kind |-> "object", access_token |-> Str(t)]] : t \in TokenValues}
    \cup {[status |-> "200", body |-> [kind |-> "object"]],
          [status |-> "200", body |-> [kind |-> "unparsable"]],
          [status |-> "200", body |-> [kind |-> "list"]],
          [status |-> "401", body |-> [kind |-> "object"]]}

\* a variant that requests a token on every call, cached or not
NeedsTokenRequestAlways(a) == TRUE

\* the token request is issued only when no truthy token is cached
NeedsTokenRequest(a) == ~Truthy(a.access_token)

\* _get_access_token: [api, val, reqs]; val is the returned token (or None)
_get_access_token(a, resp) ==
    IF ~NeedsTokenRequest(a)
    THEN [api |-> a, val |-> a.access_token, reqs |-> <<>>]
    ELSE
        LET rq == <<[url |-> "oauth2/access_token", status |-> resp.status]>> IN
        IF resp.status = "raise"
        THEN [api |-> a, val |-> PyNone, reqs |-> rq]
        ELSE IF resp.status = "200"
        THEN
            IF Json(resp.body).exc \/ resp.body.kind # "object"
            THEN [api |-> a, val |-> PyNone, reqs |-> rq]
            ELSE
                LET tok == Get(resp.body, "access_token", PyNone) IN
                [api |-> [a EXCEPT !.access_token = tok], val |-> tok, reqs |-> rq]
        ELSE [api |-> a, val |-> a.access_token, reqs |-> rq]

\* answers of GET <site root>: a csrftoken cookie and an X-CSRFToken header, each optional
CsrfResponses ==
    {TransportError}
    \cup {[status |-> "200", cookie |-> c, header |-> h] :
            c \in {PyNone, Str("csrfC")}, h \in {PyNone, Str("csrfH")}}

NeedsCsrfRequest(a) == ~Truthy(a.csrf_token)

\* _get_csrf_token: [api, val, reqs]
_get_csrf_token(a, resp) ==
    IF ~NeedsCsrfRequest(a)
    THEN [api |-> a, val |-> a.csrf_token, reqs |-> <<>>]
    ELSE
        LET rq == <<[url |-> "site_root", status |-> resp.status]>> IN
        IF resp.status = "raise"
        THEN [api |-> a, val |-> a.csrf_token, reqs |-> rq]
        ELSE
            LET tok == IF Truthy(resp.cookie) THEN resp.cookie ELSE resp.header IN
            [api |-> [a EXCEPT !.csrf_token = tok], val |-> tok, reqs |-> rq]

\* the responses a call may draw for a request it may not issue
NoResponse == [status |-> "unused"]
TokenAnswers(a) == IF NeedsTokenRequest(a) THEN TokenResponses ELSE {NoResponse}
CsrfAnswers(a) == IF NeedsCsrfRequest(a) THEN CsrfResponses ELSE {NoResponse}

----------------------------------------------------------------------------
(* Enrollment client: OpenEdxAPI.enroll.                                   *)

\* answers of POST /api/enrollment/v1/enrollment
PostBodies ==
    {[kind |-> "object", text |-> "{..}"],
     [kind |-> "object", text |-> "{..}", message |-> Str("Course is full")],
     [kind |-> "list", text |-> "[..]"],
     [kind |-> "unparsable", text |-> "<html>"],
     [kind |-> "unparsable", text |-> ""]}

PostResponses ==
    {TransportError}
    \cup {[status |-> s, body |-> b] : s \in {"200", "201", "400", "500"}, b \in PostBodies}

\* the answers of the LMS to the requests one enroll call issues: no CSRF request
\* and no POST follow a token that could not be obtained
EnrollAnswers(a) ==
    UNION {IF Truthy(_get_access_token(a, t).val)
           THEN {<<t, c, p>> : c \in CsrfAnswers(a), p \in PostResponses}
           ELSE {<<t, NoResponse, NoResponse>>} : t \in TokenAnswers(a)}

\* a variant of the try block that looks at the token only after the CSRF request
\* and the POST have been issued
EnrollTryLateCheck(a, email, course_id, mode, tokResp, csrfResp, postResp) ==
    LET t == _get_access_token(a, tokResp) IN
    [api |-> t.api,
     reqs |-> t.reqs \o <<[url |-> "site_root", status |-> csrfResp.status],
                          [url |-> "enrollment", status |-> postResp.status,
                           user |-> email, course_id |-> course_id, mode |-> mode]>>,
     res |-> IF ~Truthy(t.val)
             THEN Ok([ok |-> FALSE, value |-> Str("Authentication failed")])
             ELSE Ok([ok |-> FALSE, value |-> Str("Unknown error occurred")])]

\* the statements of enroll's try block: res is Ok((success, value)) or Raised
EnrollTry(a, email, course_id, mode, tokResp, csrfResp, postResp) ==
    LET t == _get_access_token(a, tokResp) IN
    IF ~Truthy(t.val)
    THEN [api |-> t.api, reqs |-> t.reqs,
          res |-> Ok([ok |-> FALSE, value |-> Str("Authentication failed")])]
    ELSE
        LET c == _get_csrf_token(t.api, csrfResp)
            post == [url |-> "enrollment", status |-> postResp.status,
                     user |-> email, course_id |-> course_id, mode |-> mode]
            rq == t.reqs \o c.reqs \o <<post>>
            r == IF postResp.status = "raise"
                 THEN Raised("RequestException")
                 ELSE IF postResp.status \in {"200", "201"}
                 THEN IF Json(postResp.body).exc
                      THEN Raised("JSONDecodeError")
                      ELSE Ok([ok |-> TRUE, value |-> postResp.body])
                 ELSE IF postResp.body.text = ""
                 THEN Ok([ok |-> FALSE, value |-> Str("Unknown error occurred")])
                 ELSE IF Json(postResp.body).exc
                 THEN Raised("JSONDecodeError")
                 ELSE IF postResp.body.kind # "object"
                 THEN Raised("AttributeError")
                 ELSE Ok([ok |-> FALSE,
                          value |-> Get(postResp.body, "message", Str("Unknown error occurred"))])
        IN  [api |-> c.api, reqs |-> rq, res |-> r]

\* a variant of enroll whose try block has no handler: the exception propagates
EnrollNoHandler(a, email, course_id, mode, tokResp, csrfResp, postResp) ==
    EnrollTry(a, email, course_id, mode, tokResp, csrfResp, postResp)

\* enroll: `except Exception as e: return False, str(e)` around the try block
enroll(a, email, course_id, mode, tokResp, csrfResp, postResp) ==
    LET b == EnrollTry(a, email, course_id, mode, tokResp, csrfResp, postResp) IN
    IF b.res.exc
    THEN [b EXCEPT !.res = Ok([ok |-> FALSE, value |-> Str(b.res.err)])]
    ELSE b

----------------------------------------------------------------------------
(* Cart aggregate: app/models/cart.py.                                     *)

Users == {1, 2}
\* User.username of a users row
Username(u) == IF u = 1 THEN "alice" ELSE "bob"
\* a user_id that names no users row
NoSuchUser == 0

Courses == {"course-v1:A", "course-v1:B"}

\* CartItem.price is a Float column: a price is held in thousandths of the currency
\* unit, so that a fraction of a cent can be told from none (50000 is 50.0)
PriceScale == 1000

\* what the cart route passes for a line: mode, price (None when not positive), currency
LineOffers ==
    {[mode |-> "audit", price |-> PyNone, currency |-> "USD"],
     [mode |-> "verified", price |-> Num(50000), currency |-> "EUR"]}

\* Cart ids are the row numbers of the carts table
CartIds == 1 .. Len(carts)
\* a cart_id that names no carts row
NoSuchCart == Cardinality(Users) + 1

\* User.shopping_cart (uselist=False): the user's Cart row, 0 when none
shopping_cart(cs, u) ==
    IF \E c \in 1 .. Len(cs) : cs[c] = u
    THEN CHOOSE c \in 1 .. Len(cs) : cs[c] = u /\ \A d \in 1 .. Len(cs) : cs[d] = u => c <= d
    ELSE 0

\* CartItem.query.filter_by(cart_id=...).all(), the `items` backref of a cart
cart_items(tbl, cart) == SelectSeq(tbl, LAMBDA r : r.cart_id = cart)

\* a variant of has_item that never finds the line
HasItemNever(tbl, cart, course_id) == FALSE

\* Cart.has_item
has_item(tbl, cart, course_id) ==
    \E i \in 1 .. Len(tbl) : tbl[i].cart_id = cart /\ tbl[i].course_id = course_id

\* a variant of add_item that overwrites the existing line's mode, price and currency
AddItemUpsert(tbl, cart, course_id, mode, price, currency) ==
    LET row == [cart_id |-> cart, course_id |-> course_id, mode |-> mode,
                price |-> price, currency |-> currency] IN
    IF ~has_item(tbl, cart, course_id)
    THEN [items |-> Append(tbl, row), val |-> TRUE]
    ELSE [items |-> [i \in 1 .. Len(tbl) |->
                        IF tbl[i].cart_id = cart /\ tbl[i].course_id = course_id
                        THEN row ELSE tbl[i]],
          val |-> FALSE]

\* Cart.add_item: [items, val]
add_item(tbl, cart, course_id, mode, price, currency) ==
    IF ~has_item(tbl, cart, course_id)
    THEN [items |-> Append(tbl, [cart_id |-> cart, course_id |-> course_id, mode |-> mode,
                                 price |-> price, currency |-> currency]),
          val |-> TRUE]
    ELSE [items |-> tbl, val |-> FALSE]

\* the position of the first row matching (cart, course_id); 0 when none
FirstRow(tbl, cart, course_id) ==
    IF has_item(tbl, cart, course_id)
    THEN CHOOSE i \in 1 .. Len(tbl) :
            /\ tbl[i].cart_id = cart /\ tbl[i].course_id = course_id
            /\ \A j \in 1 .. i - 1 : ~(tbl[j].cart_id = cart /\ tbl[j].course_id = course_id)
    ELSE 0

\* a variant of remove_item whose query leaves out cart_id: the first line of the
\* course in any cart is deleted
RemoveItemAnyCart(tbl, cart, course_id) ==
    IF \E i \in 1 .. Len(tbl) : tbl[i].course_id = course_id
    THEN LET k == CHOOSE i \in 1 .. Len(tbl) :
                    /\ tbl[i].course_id = course_id
                    /\ \A j \in 1 .. i - 1 : tbl[j].course_id # course_id
         IN  [items |-> SubSeq(tbl, 1, k - 1) \o SubSeq(tbl, k + 1, Len(tbl)), val |-> TRUE]
    ELSE [items |-> tbl, val |-> FALSE]

\* Cart.remove_item: [items, val]
remove_item(tbl, cart, course_id) ==
    LET k == FirstRow(tbl, cart, course_id) IN
    IF k # 0
    THEN [items |-> SubSeq(tbl, 1, k - 1) \o SubSeq(tbl, k + 1, Len(tbl)), val |-> TRUE]
    ELSE [items |-> tbl, val |-> FALSE]

\* a variant of clear that deletes nothing
ClearNothing(tbl, cart) == tbl

\* a variant of clear whose delete has no filter: every row of the table goes
ClearAllCarts(tbl, cart) == <<>>

\* Cart.clear: the table after the bulk delete and the commit
clear(tbl, cart) == SelectSeq(tbl, LAMBDA r : r.cart_id # cart)

\* a variant of the sum that gives up at the first None
RECURSIVE SumUntilNone(_)
SumUntilNone(rows) ==
    IF rows = <<>> THEN 0
    ELSE IF rows[1].price.t = "none" THEN 0
    ELSE rows[1].price.n + SumUntilNone(Tail(rows))

\* the sum of a sequence of prices, skipping None
RECURSIVE SumPrices(_)
SumPrices(rows) ==
    IF rows = <<>> THEN 0
    ELSE (IF rows[1].price.t = "none" THEN 0 ELSE rows[1].price.n) + SumPrices(Tail(rows))

\* a variant of total
TotalUntilNone(tbl, cart) == SumUntilNone(cart_items(tbl, cart))

\* Cart.total
total(tbl, cart) == SumPrices(cart_items(tbl, cart))

----------------------------------------------------------------------------
(* Cart requests: app/routes/cart.py.  Each is one request, run to its end. *)

NoRet == [op |-> "none"]
IdleWh == [pc |-> "idle"]

\* no webhook request is between its first and its last step
NoRequestInFlight == wh.pc \in {"idle", "done"}

\* cart.view, first access: the Cart row is created when the user has none
CreateCart(u) ==
    /\ NoRequestInFlight
    /\ shopping_cart(carts, u) = 0
    /\ carts' = Append(carts, u)
    /\ ret' = [op |-> "create_cart", user |-> u]
    /\ wh' = IdleWh
    /\ enrollLog' = <<>>
    /\ UNCHANGED <<items, apiVars>>

\* Cart.add_item on an existing cart
AddItem(c, course_id, offer) ==
    /\ NoRequestInFlight
    /\ c \in CartIds
    /\ LET r == add_item(items, c, course_id, offer.mode, offer.price, offer.currency) IN
        /\ Len(r.items) <= MaxItems
        /\ items' = r.items
        /\ ret' = [op |-> "add_item", cart |-> c, course_id |-> course_id, offer |-> offer,
                   val |-> r.val, before |-> items]
    /\ wh' = IdleWh
    /\ enrollLog' = <<>>
    /\ UNCHANGED <<carts, apiVars>>

\* Cart.remove_item on an existing cart
RemoveItem(c, course_id) ==
    /\ NoRequestInFlight
    /\ c \in CartIds
    /\ LET r == remove_item(items, c, course_id) IN
        /\ items' = r.items
        /\ ret' = [op |-> "remove_item", cart |-> c, course_id |-> course_id,
                   val |-> r.val, before |-> items]
    /\ wh' = IdleWh
    /\ enrollLog' = <<>>
    /\ UNCHANGED <<carts, apiVars>>

\* Cart.clear on an existing cart (the cart route's clear)
ClearCart(c) ==
    /\ NoRequestInFlight
    /\ c \in CartIds
    /\ items' = clear(items, c)
    /\ ret' = [op |-> "clear", cart |-> c, before |-> items]
    /\ wh' = IdleWh
    /\ enrollLog' = <<>>
    /\ UNCHANGED <<carts, apiVars>>

----------------------------------------------------------------------------
(* Webhook: app/routes/payment.py, webhook().                              *)

SucceededType == "payment_intent.succeeded"

\* what the payment processor (or anyone else) may POST to /payment/webhook:
\* sig is the outcome of stripe.Webhook.construct_event on the payload and header.
\* The handler reads the type and the metadata of a verified event only, so the
\* unverifiable events and the events of another type name user 1 throughout.
Events ==
    [sig : {"valid"}, type : {SucceededType},
     cart_id : 1 .. NoSuchCart, user_id : Users \cup {NoSuchUser}]
    \cup [sig : {"valid"}, type : {"payment_intent.created"},
          cart_id : 1 .. NoSuchCart, user_id : {1}]
    \cup [sig : {"bad_signature", "bad_payload"}, type : {SucceededType},
          cart_id : 1 .. NoSuchCart, user_id : {1}]

\* a variant of construct_event that accepts every payload and signature
ConstructEventAcceptAll(ev) == Ok(ev)

\* stripe.Webhook.construct_event: the event, or ValueError / SignatureVerificationError
construct_event(ev) ==
    CASE ev.sig = "bad_payload" -> Raised("ValueError")
      [] ev.sig = "bad_signature" -> Raised("SignatureVerificationError")
      [] OTHER -> Ok(ev)

\* the answer of the handler: the request is over
WebhookDone(ev, status, before) ==
    [pc |-> "done", event |-> ev, status |-> status, before |-> before]

\* a variant of the handler's first lines that settles a verified event of any type
WebhookStartAnyType(ev) ==
    /\ NoRequestInFlight
    /\ enrollLog' = <<>>
    /\ ret' = NoRet
    /\ UNCHANGED <<carts, items, apiVars>>
    /\ LET e == construct_event(ev) IN
        IF e.exc
        THEN wh' = WebhookDone(ev, 400, items)
        ELSE IF ev.cart_id \notin CartIds
        THEN wh' = WebhookDone(ev, 404, items)
        ELSE wh' = [pc |-> "enrolling", event |-> ev, before |-> items,
                    snapshot |-> cart_items(items, ev.cart_id), i |-> 1, api |-> NewApi]

\* lines 77-113: verify the event, look up the user and the cart, load cart.items
WebhookStart(ev) ==
    /\ NoRequestInFlight
    /\ enrollLog' = <<>>
    /\ ret' = NoRet
    /\ UNCHANGED <<carts, items, apiVars>>
    /\ LET e == construct_event(ev) IN
        IF e.exc
        THEN wh' = WebhookDone(ev, 400, items)
        ELSE IF ev.type # SucceededType
        THEN wh' = WebhookDone(ev, 200, items)
        ELSE IF ev.cart_id \notin CartIds
        THEN wh' = WebhookDone(ev, 404, items)
        ELSE wh' = [pc |-> "enrolling", event |-> ev, before |-> items,
                    snapshot |-> cart_items(items, ev.cart_id), i |-> 1, api |-> NewApi]

\* what one enroll call of the handler may come to: the client afterwards and the outcome
EnrollResults(a, email, course_id, mode) ==
    {LET r == enroll(a, email, course_id, mode, x[1], x[2], x[3]) IN
        [api |-> r.api, exc |-> r.res.exc, ok |-> IF r.res.exc THEN FALSE ELSE r.res.val.ok] :
        x \in EnrollAnswers(a)}

\* a variant of the loop body that passes over the line when the user is missing
WebhookEnrollSkipUser ==
    /\ wh.pc = "enrolling"
    /\ wh.i <= Len(wh.snapshot)
    /\ UNCHANGED <<carts, items, ret, apiVars>>
    /\ LET item == wh.snapshot[wh.i] IN
        IF wh.event.user_id \notin Users
        THEN
            /\ wh' = [wh EXCEPT !.i = wh.i + 1]
            /\ UNCHANGED enrollLog
        ELSE \E r \in EnrollResults(wh.api, Username(wh.event.user_id), item.course_id, item.mode) :
            /\ enrollLog' = Append(enrollLog,
                    [user |-> Username(wh.event.user_id), course_id |-> item.course_id,
                     mode |-> item.mode, ok |-> r.ok])
            /\ IF r.exc
               THEN wh' = WebhookDone(wh.event, 500, wh.before)
               ELSE wh' = [wh EXCEPT !.i = wh.i + 1, !.api = r.api]

\* lines 115-124: one pass of `for item in cart.items`
WebhookEnroll ==
    /\ wh.pc = "enrolling"
    /\ wh.i <= Len(wh.snapshot)
    /\ UNCHANGED <<carts, items, ret, apiVars>>
    /\ LET item == wh.snapshot[wh.i] IN
        IF wh.event.user_id \notin Users
        THEN \* user is None: user.username raises AttributeError, caught at line 132
            /\ wh' = WebhookDone(wh.event, 500, wh.before)
            /\ UNCHANGED enrollLog
        ELSE \E r \in EnrollResults(wh.api, Username(wh.event.user_id), item.course_id, item.mode) :
            /\ enrollLog' = Append(enrollLog,
                    [user |-> Username(wh.event.user_id), course_id |-> item.course_id,
                     mode |-> item.mode, ok |-> r.ok])
            /\ IF r.exc
               THEN wh' = WebhookDone(wh.event, 500, wh.before)
               ELSE wh' = [wh EXCEPT !.i = wh.i + 1, !.api = r.api]

\* lines 126-130: cart.clear() and the answer
WebhookClear ==
    /\ wh.pc = "enrolling"
    /\ wh.i > Len(wh.snapshot)
    /\ items' = clear(items, wh.event.cart_id)
    /\ wh' = WebhookDone(wh.event, 200, wh.before)
    /\ UNCHANGED <<carts, ret, enrollLog, apiVars>>

----------------------------------------------------------------------------
(* The store, one request at a time. *)

IdleCall == [op |-> "none"]

Init ==
    /\ carts = <<>>
    /\ items = <<>>
    /\ ret = NoRet
    /\ wh = IdleWh
    /\ enrollLog = <<>>
    /\ api = NewApi
    /\ call = IdleCall
    /\ requests = <<>>

Next ==
    \/ \E u \in Users : CreateCart(u)
    \/ \E c \in CartIds, course_id \in Courses, offer \in LineOffers : AddItem(c, course_id, offer)
    \/ \E c \in CartIds, course_id \in Courses : RemoveItem(c, course_id)
    \/ \E c \in CartIds : ClearCart(c)
    \/ \E ev \in Events : WebhookStart(ev)
    \/ WebhookEnroll
    \/ WebhookClear

Spec == Init /\ [][Next]_vars

----------------------------------------------------------------------------
(* Properties of the store. *)

\* the webhook request just answered carried a verified payment_intent.succeeded
\* event naming an existing cart and an existing user
SettledEvent ==
    /\ wh.pc = "done"
    /\ wh.event.sig = "valid"
    /\ wh.event.type = SucceededType
    /\ wh.event.cart_id \in CartIds
    /\ wh.event.user_id \in Users

\* C1: after a verified payment_intent.succeeded event for an existing cart and an
\* existing user, the handler has called enroll exactly once per line the cart held,
\* with (username, line.course_id, line.mode), and the cart has no line, whatever
\* the enroll calls returned.
C1_SettlementEnrollsEachLineAndClears ==
    SettledEvent =>
        LET lines == cart_items(wh.before, wh.event.cart_id) IN
        /\ Len(enrollLog) = Len(lines)
        /\ \A i \in 1 .. Len(lines) :
            /\ enrollLog[i].user = Username(wh.event.user_id)
            /\ enrollLog[i].course_id = lines[i].course_id
            /\ enrollLog[i].mode = lines[i].mode
        /\ cart_items(items, wh.event.cart_id) = <<>>

\* a cart of two lines was settled, one enroll call failed and the other succeeded
C1_Witness ==
    /\ SettledEvent
    /\ Len(cart_items(wh.before, wh.event.cart_id)) = 2
    /\ Len(enrollLog) = 2
    /\ ~enrollLog[1].ok
    /\ enrollLog[2].ok
    /\ cart_items(items, wh.event.cart_id) = <<>>

\* C2: a request whose signature or payload does not verify is answered 400, with no
\* enroll call made and no cart line changed; no enroll call is ever made for an
\* event that did not verify.
C2_UnverifiedEventChangesNothing ==
    /\ (wh.pc = "done" /\ wh.event.sig # "valid") =>
            /\ wh.status = 400
            /\ enrollLog = <<>>
            /\ items = wh.before
    /\ (wh.pc \in {"enrolling", "done"} /\ enrollLog # <<>>) => wh.event.sig = "valid"

\* a succeeded event with a bad signature named a cart that holds lines, and was refused
C2_Witness ==
    /\ wh.pc = "done"
    /\ wh.event.sig = "bad_signature"
    /\ wh.event.type = SucceededType
    /\ wh.status = 400
    /\ cart_items(items, wh.event.cart_id) # <<>>

\* no two rows of the table share (cart_id, course_id)
NoDuplicateLines(tbl) ==
    \A i, j \in 1 .. Len(tbl) :
        (tbl[i].cart_id = tbl[j].cart_id /\ tbl[i].course_id = tbl[j].course_id) => i = j

\* C3: between requests (each run to completion), no cart holds two lines with the
\* same course_id.
C3_NoDuplicateCourseInCart == NoRequestInFlight => NoDuplicateLines(items)

\* add_item was called for a course the cart already held, and a second line of the
\* same cart is in the table
C3_Witness ==
    /\ ret.op = "add_item"
    /\ ~ret.val
    /\ Len(cart_items(items, ret.cart)) = 2

\* the line of (cart, course_id) in a table, as a set of rows
LinesOf(tbl, cart, course_id) ==
    {tbl[i] : i \in {j \in 1 .. Len(tbl) : tbl[j].cart_id = cart /\ tbl[j].course_id = course_id}}

\* C4: add_item on a cart with no line for the course returns True and adds exactly
\* that one line; on a cart that has a line for the course it returns False and
\* leaves the lines and the total as they were, whatever mode, price and currency
\* the call carries.
C4_AddItemOnceThenNoOp ==
    ret.op = "add_item" =>
        IF LinesOf(ret.before, ret.cart, ret.course_id) = {}
        THEN /\ ret.val
             /\ items = Append(ret.before,
                    [cart_id |-> ret.cart, course_id |-> ret.course_id, mode |-> ret.offer.mode,
                     price |-> ret.offer.price, currency |-> ret.offer.currency])
        ELSE /\ ~ret.val
             /\ items = ret.before
             /\ total(items, ret.cart) = total(ret.before, ret.cart)

\* the second add_item for a course carried another mode, price and currency than
\* the line in the cart, whose price counts in the total
C4_Witness ==
    /\ ret.op = "add_item"
    /\ ~ret.val
    /\ \E r \in LinesOf(items, ret.cart, ret.course_id) :
        /\ r.mode # ret.offer.mode
        /\ r.price # ret.offer.price
        /\ r.currency # ret.offer.currency
    /\ total(items, ret.cart) > 0

\* the webhook request in hand carries a verified payment_intent.succeeded event
SucceededEvent ==
    /\ wh.pc \in {"enrolling", "done"}
    /\ wh.event.sig = "valid"
    /\ wh.event.type = SucceededType

\* C27: a verified payment_intent.succeeded event that names no Cart row, or no User
\* row while the cart has lines, is answered 404 or 500 with no successful enroll
\* call and no cart line deleted; and the table differs from what the handler found
\* only once an enroll call has been made for every line the cart held.
C27_MissingCartOrUserSettlesNothing ==
    /\ (/\ SucceededEvent
        /\ wh.pc = "done"
        /\ \/ wh.event.cart_id \notin CartIds
           \/ /\ wh.event.user_id \notin Users
              /\ cart_items(wh.before, wh.event.cart_id) # <<>>) =>
            /\ wh.status \in {404, 500}
            /\ \A i \in 1 .. Len(enrollLog) : ~enrollLog[i].ok
            /\ items = wh.before
    /\ (SucceededEvent /\ items # wh.before) =>
            LET lines == cart_items(wh.before, wh.event.cart_id) IN
            /\ Len(enrollLog) = Len(lines)
            /\ \A i \in 1 .. Len(lines) : enrollLog[i].course_id = lines[i].course_id

\* a verified succeeded event named a cart of two lines and a user that does not
\* exist: the handler answered 500 and the two lines are still in the cart
C27_Witness ==
    /\ SucceededEvent
    /\ wh.pc = "done"
    /\ wh.event.cart_id \in CartIds
    /\ wh.event.user_id \notin Users
    /\ wh.status = 500
    /\ Len(cart_items(items, wh.event.cart_id)) = 2

\* C18: a verified event of a type other than payment_intent.succeeded is answered
\* 200, with no cart line changed and no enroll call made; the handler never
\* enrolls for such an event.
C18_OtherEventTypesIgnored ==
    /\ (wh.pc = "done" /\ wh.event.sig = "valid" /\ wh.event.type # SucceededType) =>
            /\ wh.status = 200
            /\ enrollLog = <<>>
            /\ items = wh.before
    /\ wh.pc = "enrolling" => wh.event.type = SucceededType

\* a verified payment_intent.created event named a cart that holds lines
C18_Witness ==
    /\ wh.pc = "done"
    /\ wh.event.sig = "valid"
    /\ wh.event.type = "payment_intent.created"
    /\ wh.status = 200
    /\ cart_items(items, wh.event.cart_id) # <<>>

\* the rows of a table other than the lines of (cart, course_id), in order
WithoutLine(tbl, cart, course_id) ==
    SelectSeq(tbl, LAMBDA r : ~(r.cart_id = cart /\ r.course_id = course_id))

\* C20: remove_item on a cart that has a line for the course returns True and deletes
\* exactly that line, every other row of the table staying as it was; on a cart with
\* no line for the course it returns False and changes nothing.
C20_RemoveItemExactlyThatLine ==
    ret.op = "remove_item" =>
        IF LinesOf(ret.before, ret.cart, ret.course_id) # {}
        THEN /\ ret.val
             /\ items = WithoutLine(ret.before, ret.cart, ret.course_id)
             /\ Len(items) = Len(ret.before) - 1
        ELSE /\ ~ret.val
             /\ items = ret.before

\* a line was removed from a table in which another cart held the same course
C20_Witness ==
    /\ ret.op = "remove_item"
    /\ ret.val
    /\ Len(ret.before) = 2
    /\ ret.before[1].course_id = ret.course_id
    /\ ret.before[1].cart_id # ret.cart
    /\ items = <<ret.before[1]>>

----------------------------------------------------------------------------
(* One OpenEdxAPI instance: the credential cache and the enrollment client. *)
(* call is the last call made on the instance: its arguments, the answers   *)
(* the LMS gave to its requests, the instance before it, and what it        *)
(* returned (or the exception that left it).                                *)

\* a request constructs a client of its own: api = OpenEdxAPI()
NewInstance ==
    /\ api' = NewApi
    /\ call' = IdleCall
    /\ requests' = <<>>
    /\ UNCHANGED cartVars

\* a call of _get_access_token on the instance
CallGetAccessToken ==
    \E t \in TokenAnswers(api) :
        LET r == _get_access_token(api, t) IN
        /\ api' = r.api
        /\ call' = [op |-> "_get_access_token", before |-> api, token |-> t, res |-> Ok(r.val)]
        /\ requests' = r.reqs
        /\ UNCHANGED cartVars

\* a call of _get_csrf_token on the instance
CallGetCsrfToken ==
    \E c \in CsrfAnswers(api) :
        LET r == _get_csrf_token(api, c) IN
        /\ api' = r.api
        /\ call' = [op |-> "_get_csrf_token", before |-> api, csrf |-> c, res |-> Ok(r.val)]
        /\ requests' = r.reqs
        /\ UNCHANGED cartVars

\* a call of enroll on the instance
CallEnroll(u, course_id, mode) ==
    \E x \in EnrollAnswers(api) :
        LET r == enroll(api, Username(u), course_id, mode, x[1], x[2], x[3]) IN
        /\ api' = r.api
        /\ call' = [op |-> "enroll", before |-> api, user |-> Username(u),
                    course_id |-> course_id, mode |-> mode,
                    token |-> x[1], csrf |-> x[2], post |-> x[3], res |-> r.res]
        /\ requests' = r.reqs
        /\ UNCHANGED cartVars

\* the (user, course, mode) triples enroll is called with
EnrollArgs == {<<1, "course-v1:A", "audit">>, <<2, "course-v1:B", "verified">>}

NextApi ==
    \/ NewInstance
    \/ CallGetAccessToken
    \/ CallGetCsrfToken
    \/ \E x \in EnrollArgs : CallEnroll(x[1], x[2], x[3])

SpecApi == Init /\ [][NextApi]_vars

\* C10: enroll never lets an exception out: whatever the token request, the CSRF
\* request and the enrollment POST come to, it returns a pair (True, payload), the
\* payload being the parsed body of a 200/201 answer, or a pair (False, message).
C10_EnrollNeverRaises ==
    call.op = "enroll" =>
        /\ ~call.res.exc
        /\ call.res.val.ok \in BOOLEAN
        /\ call.res.val.ok =>
            /\ call.post.status \in {"200", "201"}
            /\ call.res.val.value = call.post.body
        /\ ~call.res.val.ok => call.res.val.value.t = "str"

\* the POST was answered 400 with a body that parses to a list, not an object
C10_Witness ==
    /\ call.op = "enroll"
    /\ call.post.status = "400"
    /\ call.post.body.kind = "list"
    /\ call.res = Ok([ok |-> FALSE, value |-> Str("AttributeError")])

\* the answer of the token endpoint carries a token: 200, an object, a truthy
\* access_token field
TokenObtainable(resp) ==
    /\ resp.status = "200"
    /\ resp.body.kind = "object"
    /\ Truthy(Get(resp.body, "access_token", PyNone))

\* the positions of a request log that hold a request of the given endpoint
LogOf(log, url) == {k \in 1 .. Len(log) : log[k].url = url}

\* C11: when enroll cannot obtain a bearer token (nothing cached and the token
\* request raises, answers other than 200 or carries no access_token) it returns
\* (False, "Authentication failed") and issues neither the CSRF request nor the
\* enrollment POST.
C11_NoTokenFailsFast ==
    (call.op = "enroll" /\ ~Truthy(call.before.access_token) /\ ~TokenObtainable(call.token)) =>
        /\ call.res = Ok([ok |-> FALSE, value |-> Str("Authentication failed")])
        /\ requests = <<[url |-> "oauth2/access_token", status |-> call.token.status]>>
        /\ LogOf(requests, "site_root") = {}
        /\ LogOf(requests, "enrollment") = {}
        /\ api.csrf_token = call.before.csrf_token

\* the token endpoint answered 200 without an access_token field and enroll gave up
C11_Witness ==
    /\ call.op = "enroll"
    /\ call.token = [status |-> "200", body |-> [kind |-> "object"]]
    /\ call.res = Ok([ok |-> FALSE, value |-> Str("Authentication failed")])
    /\ Len(requests) = 1

\* a call on the instance that may ask for the bearer token
TokenUser(c) == c.op \in {"_get_access_token", "enroll"}

\* C12: once a token is cached on an instance, no later call on it issues a token
\* request, the token stays cached and _get_access_token returns it; with nothing
\* cached, _get_access_token issues one token request, and when that request fails
\* or carries no token, nothing is cached (so the next call requests again).
C12_TokenCachedOnceObtained ==
    [][/\ (Truthy(api.access_token) /\ call'.op # "none") =>
            /\ LogOf(requests', "oauth2/access_token") = {}
            /\ api'.access_token = api.access_token
            /\ call'.op = "_get_access_token" => call'.res = Ok(api.access_token)
       /\ (~Truthy(api.access_token) /\ TokenUser(call')) =>
            /\ LogOf(requests', "oauth2/access_token") = {1}
            /\ IF TokenObtainable(call'.token)
               THEN /\ api'.access_token = call'.token.body.access_token
                    /\ call'.op = "_get_access_token" => call'.res = Ok(api'.access_token)
               ELSE /\ ~Truthy(api'.access_token)
                    /\ call'.op = "_get_access_token" => ~Truthy(call'.res.val)]_vars

\* _get_access_token was called with a token cached: no request, the same token
C12_Witness ==
    /\ call.op = "_get_access_token"
    /\ Truthy(call.before.access_token)
    /\ requests = <<>>
    /\ call.res = Ok(call.before.access_token)
    /\ api = call.before

\* C13: once a _get_csrf_token call has completed its GET of the site root, the next
\* _get_csrf_token call on the instance issues no GET, whatever that first answer
\* carried (no token included).
C13_CsrfFetchedOnce ==
    [][(/\ call.op = "_get_csrf_token"
        /\ requests = <<[url |-> "site_root", status |-> "200"]>>
        /\ call'.op = "_get_csrf_token") => requests' = <<>>]_vars

----------------------------------------------------------------------------
(* Pricing resolver: OpenEdxAPI.get_course_price.                          *)

\* the entries a "modes" list of the commerce or the enrollment API may hold: JSON
\* objects with the keys name, price and currency, each of which may be absent
ModeEntries ==
    {[name |-> Str("verified"), price |-> Num(50), currency |-> Str("usd")],
     [name |-> Str("professional"), price |-> Num(120), currency |-> Str("EUR")],
     [name |-> Str("verified"), price |-> Num(0), currency |-> Str("Egp")],
     [name |-> Str("audit"), price |-> Num(0), currency |-> Str("usd")],
     [name |-> Str("honor"), price |-> Num(30), currency |-> Str("eur")],
     [name |-> Str("audit")],
     [name |-> Str("professional"), price |-> Str("free"), currency |-> Str("usd")],
     [name |-> Str("credit"), price |-> Num(75), currency |-> PyNone]}

\* the sequences over a set, up to a length
SeqsUpTo(S, n) == UNION {[1 .. k -> S] : k \in 0 .. n}

ModeLists == SeqsUpTo(ModeEntries, MaxModes)

\* answers of GET /api/commerce/v1/courses/<id>/ : an object with a "modes" list
CommerceResponses ==
    {TransportError,
     [status |-> "404", body |-> [kind |-> "object"]],
     [status |-> "200", body |-> [kind |-> "unparsable"]],
     [status |-> "200", body |-> [kind |-> "list"]],
     [status |-> "200", body |-> [kind |-> "object"]]}
    \cup {[status |-> "200", body |-> [kind |-> "object", modes |-> l]] : l \in ModeLists}

\* answers of GET /api/enrollment/v1/course/<id>/modes : a list of modes (or an
\* object, with keys or without)
ModesResponses ==
    {TransportError,
     [status |-> "404", body |-> [kind |-> "object", empty |-> FALSE]],
     [status |-> "200", body |-> [kind |-> "unparsable"]],
     [status |-> "200", body |-> [kind |-> "object", empty |-> FALSE]],
     [status |-> "200", body |-> [kind |-> "object", empty |-> TRUE]]}
    \cup {[status |-> "200", body |-> [kind |-> "list", modes |-> l]] : l \in ModeLists}

NamedModes == {"professional", "verified"}

\* mode.get('name') in ['professional', 'verified']
IsNamed(mode) == "name" \in DOMAIN mode /\ mode.name.t = "str" /\ mode.name.s \in NamedModes

\* float(mode.get('price', 0))
PriceOf(mode) == Float(Get(mode, "price", Num(0)))

\* the dict built from a mode: price, mode.get('currency', 'USD').upper(), source
PriceInfo(mode, source) ==
    LET p == PriceOf(mode)
        c == Upper(Get(mode, "currency", Str("USD")))
    IN  IF p.exc THEN p
        ELSE IF c.exc THEN c
        ELSE Ok([price |-> p.val, currency |-> c.val, source |-> source])

\* the outcome of a scan that found nothing: the code goes on to the next statement
NotFound == [exc |-> FALSE, none |-> TRUE]
Found(r) == ~r.exc /\ "val" \in DOMAIN r

\* a variant of the first pass that skips a named mode whose price is not positive
RECURSIVE ScanNamedPositive(_, _)
ScanNamedPositive(modes, source) ==
    IF modes = <<>> THEN NotFound
    ELSE IF IsNamed(modes[1]) /\ ~PriceOf(modes[1]).exc /\ PriceOf(modes[1]).val.n > 0
    THEN PriceInfo(modes[1], source)
    ELSE ScanNamedPositive(Tail(modes), source)

\* first pass: the first mode named professional or verified, whatever its price
RECURSIVE ScanNamed(_, _)
ScanNamed(modes, source) ==
    IF modes = <<>> THEN NotFound
    ELSE IF IsNamed(modes[1]) THEN PriceInfo(modes[1], source)
    ELSE ScanNamed(Tail(modes), source)

\* second pass: the first mode whose price is positive
RECURSIVE ScanPositive(_, _)
ScanPositive(modes, source) ==
    IF modes = <<>> THEN NotFound
    ELSE LET p == PriceOf(modes[1]) IN
        IF p.exc THEN p
        ELSE IF p.val.n > 0 THEN PriceInfo(modes[1], source)
        ELSE ScanPositive(Tail(modes), source)

\* a variant of the two passes that looks for a positive price first
TwoPassPositiveFirst(modes, source) ==
    LET n == ScanPositive(modes, source) IN
    IF n.exc \/ Found(n) THEN n ELSE ScanNamed(modes, source)

\* the two passes over one list
TwoPass(modes, source) ==
    LET n == ScanNamed(modes, source) IN
    IF n.exc \/ Found(n) THEN n ELSE ScanPositive(modes, source)

\* lines 448-467: what the commerce answer comes to
CommerceStage(resp) ==
    IF resp.status = "raise" THEN Raised("RequestException")
    ELSE IF resp.status # "200" THEN NotFound
    ELSE IF Json(resp.body).exc THEN Raised("JSONDecodeError")
    ELSE IF resp.body.kind # "object" THEN Raised("AttributeError")
    ELSE TwoPass(Get(resp.body, "modes", <<>>), "commerce_api")

\* lines 469-497: what the course-modes answer comes to; iterating a JSON object
\* yields its keys, which have no get, and an object without keys yields nothing
ModesStage(resp) ==
    IF resp.status = "raise" THEN Raised("RequestException")
    ELSE IF resp.status # "200" THEN NotFound
    ELSE IF Json(resp.body).exc THEN Raised("JSONDecodeError")
    ELSE IF resp.body.kind = "object" THEN
        IF resp.body.empty THEN NotFound ELSE Raised("AttributeError")
    ELSE TwoPass(resp.body.modes, "course_modes_api")

DefaultPrice == [price |-> Num(0), currency |-> Str("USD"), source |-> "default"]
ErrorPrice == [price |-> Num(0), currency |-> Str("USD"), source |-> "error"]

\* the course-modes endpoint is requested when the commerce stage returned nothing
NeedsModes(commerce) == LET c == CommerceStage(commerce) IN ~c.exc /\ ~Found(c)
ModesAnswers(commerce) == IF NeedsModes(commerce) THEN ModesResponses ELSE {NoResponse}

\* the statements of get_course_price's try block
PriceTry(commerce, modes) ==
    LET c == CommerceStage(commerce) IN
    IF c.exc \/ Found(c) THEN c
    ELSE LET m == ModesStage(modes) IN
        IF m.exc \/ Found(m) THEN m ELSE Ok(DefaultPrice)

\* a variant of get_course_price whose try block has no handler
PriceNoHandler(commerce, modes) == PriceTry(commerce, modes)

\* get_course_price: `except Exception` returns the error record
get_course_price(commerce, modes) ==
    LET r == PriceTry(commerce, modes) IN
    IF r.exc THEN Ok(ErrorPrice) ELSE r

\* the pricing requests get_course_price issues, in order
PriceRequests(commerce, modes) ==
    <<[url |-> "commerce", status |-> commerce.status]>>
    \o (IF NeedsModes(commerce) THEN <<[url |-> "enrollment_modes", status |-> modes.status]>>
        ELSE <<>>)

\* the same for answers already matched: the course modes are requested unless unused
PriceRequestsOf(commerce, modes) ==
    <<[url |-> "commerce", status |-> commerce.status]>>
    \o (IF modes # NoResponse THEN <<[url |-> "enrollment_modes", status |-> modes.status]>>
        ELSE <<>>)

----------------------------------------------------------------------------
(* The catalog client: calls of get_course_price, get_courses and           *)
(* get_course_details, each on a client of its own (every route constructs  *)
(* its OpenEdxAPI and drops it with the request).  _get_auth_headers never  *)
(* raises and the answers of the LMS are drawn whatever the headers, so the *)
(* credential requests are left out of these calls.                         *)

\* the request is answered and its client dropped
EndRequest ==
    /\ call.op # "none"
    /\ "res" \in DOMAIN call
    /\ call' = IdleCall
    /\ requests' = <<>>
    /\ UNCHANGED <<api, cartVars>>

\* a call of get_course_price
CallGetCoursePrice ==
    \E c \in CommerceResponses :
        \E m \in ModesAnswers(c) :
            /\ call = IdleCall
            /\ call' = [op |-> "get_course_price", commerce |-> c, modes |-> m,
                        res |-> get_course_price(c, m)]
            /\ requests' = PriceRequests(c, m)
            /\ UNCHANGED <<api, cartVars>>

----------------------------------------------------------------------------
(* Catalog listing: OpenEdxAPI.get_courses.  The pricing of each course is  *)
(* written out in the loop body, not delegated to get_course_price.         *)

\* the "results" lists of a catalog page: course records, with an id or without,
\* one of them with a price field of its own
CoursePages ==
    {<<>>,
     <<[id |-> Str("course-v1:B"), price |-> Num(10)]>>,
     <<[id |-> Str("course-v1:A"), name |-> Str("Algebra")]>>,
     <<[id |-> Str("course-v1:A"), name |-> Str("Algebra")], [id |-> Str("course-v1:B")]>>,
     <<[name |-> Str("Draft")], [id |-> Str("course-v1:B")]>>}

\* answers of GET /api/courses/v1/courses/ : an object with results and count
CatalogResponses ==
    {TransportError,
     [status |-> "500", body |-> [kind |-> "object"]],
     [status |-> "200", body |-> [kind |-> "unparsable"]],
     [status |-> "200", body |-> [kind |-> "list"]],
     [status |-> "200", body |-> [kind |-> "object"]]}
    \cup {[status |-> "200", body |-> [kind |-> "object", results |-> l, count |-> Num(Len(l))]] :
            l \in CoursePages}

\* d.update(e) on two dicts
Update(d, e) == [k \in DOMAIN d \cup DOMAIN e |-> IF k \in DOMAIN e THEN e[k] ELSE d[k]]

\* lines 166-187 (and 204-225): the two loops over one modes list, the second one
\* run only `if 'price' not in course`
ListingScan(course, modes, source) ==
    LET n == ScanNamed(modes, source) IN
    IF n.exc THEN n
    ELSE LET c1 == IF Found(n) THEN Update(course, n.val) ELSE course IN
        IF "price" \in DOMAIN c1 THEN Ok(c1)
        ELSE LET p == ScanPositive(modes, source) IN
            IF p.exc THEN p
            ELSE IF Found(p) THEN Ok(Update(c1, p.val)) ELSE Ok(c1)

\* lines 154-189: the commerce request of one course and what it makes of the course
ListingCommerce(course, resp) ==
    IF resp.status = "raise" THEN Raised("RequestException")
    ELSE IF resp.status # "200" THEN Ok(course)
    ELSE IF Json(resp.body).exc THEN Raised("JSONDecodeError")
    ELSE IF resp.body.kind # "object" THEN Raised("AttributeError")
    ELSE ListingScan(course, Get(resp.body, "modes", <<>>), "commerce_api")

\* lines 192-227: the course-modes request of one course, made `if 'price' not in course`
ListingModes(course, resp) ==
    IF resp.status = "raise" THEN Raised("RequestException")
    ELSE IF resp.status # "200" THEN Ok(course)
    ELSE IF Json(resp.body).exc THEN Raised("JSONDecodeError")
    ELSE IF resp.body.kind = "object" THEN
        IF resp.body.empty THEN Ok(course) ELSE Raised("AttributeError")
    ELSE ListingScan(course, resp.body.modes, "course_modes_api")

\* the course-modes endpoint is requested when the commerce stage left no price
ListingNeedsModes(course, commerce) ==
    LET c == ListingCommerce(course, commerce) IN ~c.exc /\ "price" \notin DOMAIN c.val
ListingModesAnswers(course, commerce) ==
    IF ListingNeedsModes(course, commerce) THEN ModesResponses ELSE {NoResponse}

\* lines 151-227: the loop body for one course that has an id
ListingPrice(course, commerce, modes) ==
    LET c == ListingCommerce(course, commerce) IN
    IF c.exc THEN c
    ELSE IF "price" \in DOMAIN c.val THEN c
    ELSE ListingModes(c.val, modes)

\* lines 122-147: the catalog request; data.get('results', []) of a 200 answer
CatalogFetch(resp) ==
    IF resp.status = "raise" THEN Raised("RequestException")
    ELSE IF resp.status # "200" THEN NotFound
    ELSE IF Json(resp.body).exc THEN Raised("JSONDecodeError")
    ELSE IF resp.body.kind # "object" THEN Raised("AttributeError")
    ELSE Ok(Get(resp.body, "results", <<>>))

\* lines 229-236: the dict get_courses returns
ListingResult(courses, page, page_size, body) ==
    [results |-> courses,
     pagination |-> [page |-> page, page_size |-> page_size,
                     total |-> Get(body, "count", Num(0))]]

\* the (page, page_size) pairs of the callers: the defaults and a second page
PageArgs == {<<1, 12>>, <<2, 12>>}

\* get_courses up to the loop: the catalog request.  A failed request returns None
\* (`else` of line 237, `except Exception` of line 242).
GetCoursesStart ==
    \E resp \in CatalogResponses, pg \in PageArgs :
        LET f == CatalogFetch(resp) IN
        /\ call = IdleCall
        /\ requests' = <<[url |-> "catalog", status |-> resp.status]>>
        /\ call' = IF ~Found(f)
                   THEN [op |-> "get_courses", pc |-> "done", catalog |-> resp, page |-> pg,
                         res |-> Ok(PyNone)]
                   ELSE [op |-> "get_courses", pc |-> "loop", catalog |-> resp, page |-> pg,
                         courses |-> f.val, i |-> 0]
        /\ UNCHANGED <<api, cartVars>>

\* `for course in courses: course_id = course.get('id'); if course_id:` and, past the
\* last course, the return of the result
GetCoursesLoop ==
    /\ call.op = "get_courses"
    /\ call.pc = "loop"
    /\ IF call.i = Len(call.courses)
       THEN call' = [op |-> "get_courses", pc |-> "done", catalog |-> call.catalog,
                     page |-> call.page, courses |-> call.courses, i |-> call.i,
                     res |-> Ok(ListingResult(call.courses, call.page[1], call.page[2],
                                              call.catalog.body))]
       ELSE call' = [op |-> "get_courses",
                     pc |-> IF Truthy(Get(call.courses[call.i + 1], "id", PyNone))
                            THEN "price" ELSE "loop",
                     catalog |-> call.catalog, page |-> call.page,
                     courses |-> call.courses, i |-> call.i + 1]
    /\ UNCHANGED <<requests, api, cartVars>>

\* the pricing requests of course i.  An exception leaves the loop and the function
\* through `except Exception`, which returns None.
GetCoursesPrice ==
    /\ call.op = "get_courses"
    /\ call.pc = "price"
    /\ \E c \in CommerceResponses :
        \E m \in ListingModesAnswers(call.courses[call.i], c) :
            LET r == ListingPrice(call.courses[call.i], c, m)
                base == [op |-> "get_courses", catalog |-> call.catalog, page |-> call.page,
                         i |-> call.i, commerce |-> c, modes |-> m]
            IN  /\ call' = IF r.exc
                           THEN Update(base, [pc |-> "done", courses |-> call.courses,
                                              res |-> Ok(PyNone)])
                           ELSE Update(base, [pc |-> "loop",
                                              courses |-> [call.courses EXCEPT ![call.i] = r.val]])
                /\ requests' = <<[url |-> "catalog", status |-> "200"]>>
                                \o PriceRequestsOf(c, m)
    /\ UNCHANGED <<api, cartVars>>

----------------------------------------------------------------------------
(* Course details: OpenEdxAPI.get_course_details and get_course_mode.       *)

PyTrue == [t |-> "bool", b |-> TRUE]
EmptyDict == [t |-> "dict"]

\* answers of the detail endpoints: an object whose fields are those of the course
DetailResponses ==
    {TransportError,
     [status |-> "404", body |-> [kind |-> "object", fields |-> [detail |-> Str("Not found")]]],
     [status |-> "200", body |-> [kind |-> "unparsable"]],
     [status |-> "200", body |-> [kind |-> "list"]],
     [status |-> "200", body |-> [kind |-> "object", fields |-> [name |-> Str("Algebra"),
                                                                  pacing |-> Str("instructor")]]],
     [status |-> "200", body |-> [kind |-> "object", fields |-> [org |-> Str("edX"),
                                                                  price |-> Num(10)]]]}

\* the legacy endpoint is requested in the `else` of `if response.status_code == 200`
NeedsLegacy(primary) == primary.status \notin {"200", "raise"}
LegacyAnswers(primary) == IF NeedsLegacy(primary) THEN DetailResponses ELSE {NoResponse}

\* one detail request: None for an answer other than 200, else response.json()
DetailStage(resp) ==
    IF resp.status = "raise" THEN Raised("RequestException")
    ELSE IF resp.status # "200" THEN NotFound
    ELSE Json(resp.body)

\* a variant that requests the legacy endpoint whatever the primary one answered
DetailFetchBoth(primary, legacy) ==
    LET p == DetailStage(primary) IN
    [reqs |-> <<[url |-> "course_detail", status |-> primary.status],
                [url |-> "legacy_course_info", status |-> legacy.status]>>,
     out |-> IF p.exc \/ Found(p) THEN p ELSE DetailStage(legacy)]

\* lines 250-259 and 288-297: the primary request, then the legacy one if the
\* primary answered other than 200; the requests issued and what came of them
DetailFetch(primary, legacy) ==
    LET p == DetailStage(primary) IN
    IF p.exc \/ Found(p)
    THEN [reqs |-> <<[url |-> "course_detail", status |-> primary.status]>>, out |-> p]
    ELSE [reqs |-> <<[url |-> "course_detail", status |-> primary.status],
                     [url |-> "legacy_course_info", status |-> legacy.status]>>,
          out |-> DetailStage(legacy)]

\* the entries of GET /api/course_modes/v1/courses/<id>/ : mode_slug, name, price, currency
CourseModeEntries ==
    {[mode_slug |-> Str("verified"), name |-> Str("Verified Certificate"),
      price |-> Num(50), currency |-> Str("usd")],
     [mode_slug |-> Str("audit"), name |-> Str("Audit"), price |-> Num(0), currency |-> Str("usd")],
     [mode_slug |-> Str("honor"), price |-> Num(30), currency |-> Str("eur")],
     [mode_slug |-> Str("professional"), name |-> Str("Professional"),
      price |-> Str("free"), currency |-> Str("usd")]}

CourseModeResponses ==
    {TransportError,
     [status |-> "404", body |-> [kind |-> "object", empty |-> FALSE]],
     [status |-> "200", body |-> [kind |-> "unparsable"]],
     [status |-> "200", body |-> [kind |-> "object", empty |-> FALSE]]}
    \cup {[status |-> "200", body |-> [kind |-> "list", modes |-> l]] :
            l \in SeqsUpTo(CourseModeEntries, MaxModes)}

\* mode.get('mode_slug') in ['professional', 'verified']
IsNamedSlug(mode) ==
    "mode_slug" \in DOMAIN mode /\ mode.mode_slug.t = "str" /\ mode.mode_slug.s \in NamedModes

\* the dict get_course_mode builds from a mode, its name taken from the given key
ModeInfo(mode, key) ==
    LET p == PriceOf(mode)
        c == Upper(Get(mode, "currency", Str("USD")))
    IN  IF p.exc THEN p
        ELSE IF c.exc THEN c
        ELSE Ok([t |-> "dict", name |-> Get(mode, key, PyNone), price |-> p.val,
                 currency |-> c.val])

\* lines 749-756: the first mode whose mode_slug is professional or verified
RECURSIVE ScanSlug(_)
ScanSlug(modes) ==
    IF modes = <<>> THEN NotFound
    ELSE IF IsNamedSlug(modes[1]) THEN ModeInfo(modes[1], "mode_slug")
    ELSE ScanSlug(Tail(modes))

\* lines 758-766: the first mode whose price is positive
RECURSIVE ScanPaid(_)
ScanPaid(modes) ==
    IF modes = <<>> THEN NotFound
    ELSE LET p == PriceOf(modes[1]) IN
        IF p.exc THEN p
        ELSE IF p.val.n > 0 THEN ModeInfo(modes[1], "name")
        ELSE ScanPaid(Tail(modes))

AuditMode == [t |-> "dict", name |-> Str("audit"), price |-> Num(0), currency |-> Str("USD")]

\* the statements of get_course_mode's try block
ModeTry(resp) ==
    IF resp.status = "raise" THEN Raised("RequestException")
    ELSE IF resp.status # "200" THEN Ok(PyNone)
    ELSE IF Json(resp.body).exc THEN Raised("JSONDecodeError")
    ELSE IF resp.body.kind = "object" THEN Raised("AttributeError")
    ELSE LET n == ScanSlug(resp.body.modes) IN
        IF n.exc \/ Found(n) THEN n
        ELSE LET p == ScanPaid(resp.body.modes) IN
            IF p.exc \/ Found(p) THEN p ELSE Ok(AuditMode)

\* get_course_mode: `except Exception` returns None
get_course_mode(resp) ==
    LET r == ModeTry(resp) IN IF r.exc THEN PyNone ELSE r.val

\* lines 268-284: course.update({...}) with the defaults of the fields absent
EnsureFields(course, course_id, course_mode) ==
    Update(course,
        [id |-> Str(course_id),
         name |-> Get(course, "name", Str("Course")),
         short_description |-> Get(course, "short_description", Str("No description available.")),
         overview |-> Get(course, "overview", Str("No overview available.")),
         prerequisites |-> Get(course, "prerequisites", Str("No prerequisites.")),
         org |-> Get(course, "org", Str("Organization")),
         number |-> Get(course, "number", Str("Course Number")),
         start_display |-> Get(course, "start_display", Str("Not specified")),
         pacing |-> Get(course, "pacing", Str("Self-paced")),
         effort |-> Get(course, "effort", Str("Not specified")),
         media |-> Get(course, "media", EmptyDict),
         price |-> Get(course, "price", Num(0)),
         currency |-> Get(course, "currency", Str("USD")),
         mobile_available |-> Get(course, "mobile_available", PyTrue),
         mode |-> Get(course_mode, "name", Str("Not specified"))])

\* get_course_details up to the parsed course: the detail requests.  Neither
\* endpoint answering 200 returns None, and so does an exception.
DetailsStart ==
    \E course_id \in Courses, p \in DetailResponses :
        \E l \in LegacyAnswers(p) :
            LET f == DetailFetch(p, l)
                base == [op |-> "get_course_details", course_id |-> course_id,
                         primary |-> p, legacy |-> l]
            IN  /\ call = IdleCall
                /\ requests' = f.reqs
                /\ call' = IF Found(f.out)
                           THEN Update(base, [pc |-> "price", course |-> f.out.val])
                           ELSE Update(base, [pc |-> "done", res |-> Ok(PyNone)])
                /\ UNCHANGED <<api, cartVars>>

\* price_info = self.get_course_price(course_id); course.update(price_info): a
\* parsed body that is no object has no such update
DetailsPrice ==
    /\ call.op = "get_course_details"
    /\ call.pc = "price"
    /\ \E c \in CommerceResponses :
        \E m \in ModesAnswers(c) :
            LET price_info == get_course_price(c, m).val IN
            /\ call' = IF call.course.kind # "object"
                       THEN [op |-> "get_course_details", course_id |-> call.course_id,
                             primary |-> call.primary, legacy |-> call.legacy,
                             pc |-> "done", res |-> Ok(PyNone)]
                       ELSE [call EXCEPT !.pc = "mode",
                                         !.course.fields = Update(@, price_info)]
            /\ requests' = requests \o PriceRequests(c, m)
    /\ UNCHANGED <<api, cartVars>>

\* course_mode = self.get_course_mode(course_id) and the final course.update:
\* course_mode.get raises on None, and `except Exception` returns None
DetailsMode ==
    /\ call.op = "get_course_details"
    /\ call.pc = "mode"
    /\ \E r \in CourseModeResponses :
        LET course_mode == get_course_mode(r)
            base == [op |-> "get_course_details", course_id |-> call.course_id,
                     primary |-> call.primary, legacy |-> call.legacy, pc |-> "done"]
        IN  /\ call' = IF course_mode = PyNone
                       THEN Update(base, [res |-> Ok(PyNone)])
                       ELSE Update(base, [res |-> Ok(EnsureFields(call.course.fields,
                                                        call.course_id, course_mode))])
            /\ requests' = Append(requests, [url |-> "course_modes", status |-> r.status])
    /\ UNCHANGED <<api, cartVars>>

NextCatalog ==
    \/ CallGetCoursePrice
    \/ DetailsStart
    \/ DetailsPrice
    \/ DetailsMode
    \/ EndRequest

SpecCatalog == Init /\ [][NextCatalog]_vars

\* the listing calls, on their own
NextListing ==
    \/ GetCoursesStart
    \/ GetCoursesLoop
    \/ GetCoursesPrice
    \/ EndRequest

SpecListing == Init /\ [][NextListing]_vars

----------------------------------------------------------------------------
(* Properties of the pricing resolver. *)

\* the modes list of a commerce answer / of a course-modes answer that parsed
CommerceList(resp) == Get(resp.body, "modes", <<>>)
CommerceParsed(resp) == resp.status = "200" /\ resp.body.kind = "object"
ModesParsed(resp) == resp.status = "200" /\ resp.body.kind = "list"

IsNumber(v) == v.t = "num"
IsString(v) == v.t = "str"
RawPrice(e) == Get(e, "price", Num(0))
RawCurrency(e) == Get(e, "currency", Str("USD"))
IsPositive(e) == IsNumber(RawPrice(e)) /\ RawPrice(e).n > 0
NamedAt(l) == {i \in 1 .. Len(l) : IsNamed(l[i])}
PositiveAt(l) == {i \in 1 .. Len(l) : IsPositive(l[i])}
AllPricesNumbers(l) == \A i \in 1 .. Len(l) : IsNumber(RawPrice(l[i]))
Least(S) == CHOOSE x \in S : \A y \in S : x <= y

\* what the resolver returns for the entry it picked: its price and its upper-cased
\* currency (USD when absent), or the error record when either is malformed
Picked(e, source) ==
    IF IsNumber(RawPrice(e)) /\ IsString(RawCurrency(e))
    THEN [price |-> RawPrice(e), currency |-> Str(UpperStr(RawCurrency(e).s)), source |-> source]
    ELSE ErrorPrice

\* what the two-pass rule comes to on a list that has a named or a positive entry
TwoPassPick(l, source) ==
    IF NamedAt(l) # {} THEN Picked(l[Least(NamedAt(l))], source)
    ELSE IF \E i \in 1 .. Least(PositiveAt(l)) : ~IsNumber(RawPrice(l[i])) THEN ErrorPrice
    ELSE Picked(l[Least(PositiveAt(l))], source)

PriceCall == call.op = "get_course_price"

\* every entry of the list has a number for its price and a string for its currency
WellFormed(l) == \A i \in 1 .. Len(l) : IsNumber(RawPrice(l[i])) /\ IsString(RawCurrency(l[i]))

\* C5 as stated: whenever the commerce answer holds a mode named verified or
\* professional with price > 0, the resolver returns the price and the (upper-cased)
\* currency of such a mode with source commerce_api, whatever precedes it (read
\* over answers whose every entry is well formed).
C5_Original ==
    (PriceCall /\ CommerceParsed(call.commerce)) =>
        LET l == CommerceList(call.commerce)
            hits == {i \in NamedAt(l) : IsPositive(l[i])}
        IN  (hits # {} /\ WellFormed(l)) =>
                \E i \in hits : call.res = Ok(Picked(l[i], "commerce_api"))

\* C5, amended: whenever the commerce answer holds a mode named verified or
\* professional, the resolver returns the price and the upper-cased currency of the
\* first such mode in list order, whatever its price and whatever the other
\* entries, with source commerce_api (the error record when that mode's price is
\* no number or its currency no string), and does not request the course modes.
C5_FirstNamedModeWins ==
    (PriceCall /\ CommerceParsed(call.commerce)) =>
        LET l == CommerceList(call.commerce) IN
        NamedAt(l) # {} =>
            /\ call.res = Ok(Picked(l[Least(NamedAt(l))], "commerce_api"))
            /\ call.modes = NoResponse

\* a named mode of price 0 precedes a named mode of price 50, and price 0 is returned
C5_Witness ==
    /\ PriceCall
    /\ CommerceParsed(call.commerce)
    /\ LET l == CommerceList(call.commerce) IN
        /\ Len(l) = 2
        /\ IsNamed(l[1]) /\ RawPrice(l[1]) = Num(0)
        /\ IsNamed(l[2]) /\ IsPositive(l[2])
    /\ call.res = Ok([price |-> Num(0), currency |-> Str("EGP"), source |-> "commerce_api"])

\* the answer holds no mode the code would pick: no named mode, no positive price
NothingUsable(l) == NamedAt(l) = {} /\ PositiveAt(l) = {} /\ AllPricesNumbers(l)

\* C6 as stated: with no named mode of positive price in the commerce answer but
\* some mode of positive price, the first such mode is returned with source
\* commerce_api; with a commerce answer that is not 200 or holds no positive price,
\* the course-modes endpoint is consulted and its two-pass match returned (read
\* over answers whose every entry is well formed).
C6_Original ==
    PriceCall =>
        /\ CommerceParsed(call.commerce) =>
            LET l == CommerceList(call.commerce) IN
            (/\ {i \in NamedAt(l) : IsPositive(l[i])} = {}
             /\ PositiveAt(l) # {}
             /\ WellFormed(l)) =>
                call.res = Ok(Picked(l[Least(PositiveAt(l))], "commerce_api"))
        /\ (\/ call.commerce.status \notin {"200", "raise"}
            \/ /\ CommerceParsed(call.commerce)
               /\ PositiveAt(CommerceList(call.commerce)) = {}
               /\ WellFormed(CommerceList(call.commerce))) =>
                /\ call.modes # NoResponse
                /\ (/\ ModesParsed(call.modes)
                    /\ WellFormed(call.modes.body.modes)
                    /\ (NamedAt(call.modes.body.modes) # {} \/ PositiveAt(call.modes.body.modes) # {})) =>
                    call.res = Ok(TwoPassPick(call.modes.body.modes, "course_modes_api"))

\* C6, amended: with no mode named verified or professional in the commerce answer
\* but some mode of positive price, the first positive-price mode is returned with
\* source commerce_api; with a commerce answer that is not 200, or that holds
\* neither a named mode nor a positive price, the course-modes endpoint is
\* requested and the same two-pass rule (first named mode whatever its price, else
\* first positive price) is returned with source course_modes_api.  A picked mode
\* whose price is no number or whose currency is no string gives the error record.
C6_FallbackOrder ==
    PriceCall =>
        /\ CommerceParsed(call.commerce) =>
            LET l == CommerceList(call.commerce) IN
            (NamedAt(l) = {} /\ PositiveAt(l) # {}) =>
                /\ call.res = Ok(TwoPassPick(l, "commerce_api"))
                /\ call.modes = NoResponse
        /\ (\/ call.commerce.status \notin {"200", "raise"}
            \/ CommerceParsed(call.commerce) /\ NothingUsable(CommerceList(call.commerce))) =>
                /\ call.modes # NoResponse
                /\ requests = <<[url |-> "commerce", status |-> call.commerce.status],
                                [url |-> "enrollment_modes", status |-> call.modes.status]>>
                /\ (ModesParsed(call.modes)
                        /\ (NamedAt(call.modes.body.modes) # {} \/ PositiveAt(call.modes.body.modes) # {})) =>
                    call.res = Ok(TwoPassPick(call.modes.body.modes, "course_modes_api"))

\* the commerce answer held only free modes; the course modes held a positive-price
\* mode before a named one, and the named one is returned
C6_Witness ==
    /\ PriceCall
    /\ CommerceParsed(call.commerce)
    /\ CommerceList(call.commerce) # <<>>
    /\ NothingUsable(CommerceList(call.commerce))
    /\ ModesParsed(call.modes)
    /\ Len(call.modes.body.modes) = 2
    /\ ~IsNamed(call.modes.body.modes[1]) /\ IsPositive(call.modes.body.modes[1])
    /\ IsNamed(call.modes.body.modes[2])
    /\ call.res = Ok([price |-> Num(50), currency |-> Str("USD"), source |-> "course_modes_api"])

\* a request of the call raised, or a 200 answer could not be parsed
CommerceRaises(resp) ==
    resp.status = "raise" \/ (resp.status = "200" /\ resp.body.kind # "object")
ModesRaises(resp) ==
    \/ resp.status = "raise"
    \/ resp.status = "200" /\ resp.body.kind = "unparsable"
    \/ resp.status = "200" /\ resp.body.kind = "object" /\ ~resp.body.empty

\* the answer yields no mode of positive price
NoPositivePrice(resp, l) == resp.status \notin {"200", "raise"} \/ PositiveAt(l) = {}

\* C7 as stated: no exception leaves get_course_price; when neither source yields a
\* mode of positive price it returns {0, USD, default}; when a call or a parse
\* raises it returns {0, USD, error}.
C7_Original ==
    PriceCall =>
        /\ ~call.res.exc
        /\ (\/ CommerceRaises(call.commerce)
            \/ call.modes # NoResponse /\ ModesRaises(call.modes)) => call.res = Ok(ErrorPrice)
        /\ (/\ ~CommerceRaises(call.commerce)
            /\ NoPositivePrice(call.commerce, CommerceList(call.commerce))
            /\ AllPricesNumbers(CommerceList(call.commerce))
            /\ call.modes # NoResponse => 
                /\ ~ModesRaises(call.modes)
                /\ NoPositivePrice(call.modes, Get(call.modes.body, "modes", <<>>))
                /\ AllPricesNumbers(Get(call.modes.body, "modes", <<>>))) =>
            call.res = Ok(DefaultPrice)

\* the answer holds nothing the two passes pick
YieldsNothing(resp, l) == resp.status \notin {"200", "raise"} \/ NothingUsable(l)

\* C7, amended: no exception leaves get_course_price; when neither source's answer
\* holds a mode named verified or professional or a mode of positive price (an
\* answer other than 200 holds none) it returns {0, USD, default}; when a request
\* it issues raises or a 200 answer is no JSON or is not of the shape read (a
\* commerce answer that is no object, course modes that are an object with keys) it
\* returns {0, USD, error}.
C7_NeverRaises ==
    PriceCall =>
        /\ ~call.res.exc
        /\ (\/ CommerceRaises(call.commerce)
            \/ call.modes # NoResponse /\ ModesRaises(call.modes)) => call.res = Ok(ErrorPrice)
        /\ (/\ ~CommerceRaises(call.commerce)
            /\ YieldsNothing(call.commerce, CommerceList(call.commerce))) =>
                /\ call.modes # NoResponse
                /\ (/\ ~ModesRaises(call.modes)
                    /\ YieldsNothing(call.modes, Get(call.modes.body, "modes", <<>>))) =>
                        call.res = Ok(DefaultPrice)

\* the commerce answer was 404 and the course-modes request raised
C7_Witness ==
    /\ PriceCall
    /\ call.commerce.status = "404"
    /\ call.modes = TransportError
    /\ call.res = Ok(ErrorPrice)

----------------------------------------------------------------------------
(* Properties of the catalog listing. *)

GetCoursesCall == call.op = "get_courses"

\* the catalog request was answered 200 with an object
CatalogListed(resp) == resp.status = "200" /\ resp.body.kind = "object"

\* the pricing lookup of a course failed: a request it made raised, answered other
\* than 200 or could not be read, and no price came of it
RequestFailed(resp) == resp.status # "200" \/ resp.body.kind = "unparsable"
LookupFailed(commerce, modes) ==
    \/ RequestFailed(commerce) /\ (modes = NoResponse \/ RequestFailed(modes))
    \/ modes # NoResponse /\ RequestFailed(modes)

\* C8: get_courses does not fail when the pricing lookup of one course fails: with
\* the catalog request answered 200, the call returns the full list of courses
\* whatever the commerce and course-modes requests come to, and a course whose
\* lookup failed carries price 0 and currency USD.
C8_ListingSurvivesPricingFailure ==
    (GetCoursesCall /\ CatalogListed(call.catalog)) =>
        /\ "res" \in DOMAIN call =>
                /\ call.res # Ok(PyNone)
                /\ Len(call.res.val.results) = Len(Get(call.catalog.body, "results", <<>>))
        /\ ("commerce" \in DOMAIN call /\ LookupFailed(call.commerce, call.modes)) =>
                /\ call.pc = "loop"
                /\ Get(call.courses[call.i], "price", PyNone) = Num(0)
                /\ Get(call.courses[call.i], "currency", PyNone) = Str("USD")

\* get_courses has just priced course call.i and gone on with the loop
CoursePriced == GetCoursesCall /\ call.pc = "loop" /\ "commerce" \in DOMAIN call

\* the course-modes answers get_course_price may meet after the commerce answer the
\* listing met: the one the listing met, or any when the listing made no such request
ResolverModes ==
    IF call.modes = NoResponse THEN ModesAnswers(call.commerce) ELSE {call.modes}

\* C29: the price, currency and source get_courses puts on a course are those
\* get_course_price returns for the same commerce and course-modes answers.
C29_ListingPricesAsResolver ==
    CoursePriced =>
        \A m \in ResolverModes :
            LET course == call.courses[call.i]
                info == get_course_price(call.commerce, m).val
            IN  /\ {"price", "currency", "source"} \subseteq DOMAIN course
                /\ course.price = info.price
                /\ course.currency = info.currency
                /\ course.source = info.source

\* C30: every course record with an id that get_courses returns carries a price and
\* a currency; when neither source gave a price it carries 0, USD and default.
C30_ListedCoursesCarryPrice ==
    (GetCoursesCall /\ call.pc = "done" /\ call.res # Ok(PyNone)) =>
        \A k \in 1 .. Len(call.res.val.results) :
            LET course == call.res.val.results[k] IN
            Truthy(Get(course, "id", PyNone)) =>
                /\ {"price", "currency"} \subseteq DOMAIN course
                /\ course.price.n <= 0 =>
                        /\ course.price = Num(0)
                        /\ course.currency = Str("USD")
                        /\ Get(course, "source", "none") = "default"

----------------------------------------------------------------------------
(* Properties of get_course_details. *)

DetailsCall == call.op = "get_course_details"

\* the positions of the request log that hold a request of the given endpoint
RequestsOf(url) == {k \in 1 .. Len(requests) : requests[k].url = url}

\* C9: get_course_details requests the primary detail endpoint first and the legacy
\* endpoint only if the primary answered other than 200 (then as its second
\* request); with both answering other than 200 it returns None after these two
\* requests, and no exception leaves it.
C9_LegacyOnlyAfterPrimaryFails ==
    DetailsCall =>
        /\ requests[1] = [url |-> "course_detail", status |-> call.primary.status]
        /\ RequestsOf("course_detail") = {1}
        /\ call.primary.status \in {"200", "raise"} => RequestsOf("legacy_course_info") = {}
        /\ call.primary.status \notin {"200", "raise"} =>
                /\ RequestsOf("legacy_course_info") = {2}
                /\ requests[2].status = call.legacy.status
                /\ call.legacy.status \notin {"200", "raise"} =>
                        /\ call.pc = "done"
                        /\ call.res = Ok(PyNone)
                        /\ Len(requests) = 2
        /\ "res" \in DOMAIN call => ~call.res.exc

\* both endpoints answered 404 and None was returned
C9_Witness ==
    /\ DetailsCall
    /\ call.primary.status = "404"
    /\ call.legacy.status = "404"
    /\ requests = <<[url |-> "course_detail", status |-> "404"],
                    [url |-> "legacy_course_info", status |-> "404"]>>
    /\ call.res = Ok(PyNone)

\* the detail answer the call went on with: the primary one if it is a 200, else
\* the legacy one
DetailAnswer == IF call.primary.status = "200" THEN call.primary ELSE call.legacy

\* C28: when the primary detail endpoint, or failing that the legacy one, answered
\* 200 with a JSON object, get_course_details returns a course record (not None)
\* that has price, currency and mode, whatever came of the pricing and course-mode
\* lookups.
C28_DetailsSurviveLookupFailure ==
    (/\ DetailsCall
     /\ call.pc = "done"
     /\ DetailAnswer.status = "200"
     /\ DetailAnswer.body.kind = "object") =>
        /\ call.res # Ok(PyNone)
        /\ {"price", "currency", "mode"} \subseteq DOMAIN call.res.val

----------------------------------------------------------------------------
(* The path-variant fallback: CourseAPI of app/test_courses.py.  In this    *)
(* machine api is the CourseAPI instance, [token], call is its get_courses  *)
(* call and requests the requests that call has issued.                     *)

\* CourseAPI.__init__: self.token = None
NewCourseApi == [token |-> PyNone]

\* the path spellings of get_courses, in the order of its list
Endpoints ==
    <<"api/courses/v1/courses/", "api/courses/v1/courses", "api/course/v1/courses/",
      "api/course/v1/courses", "api/courses/courses/", "courses/v1/courses/",
      "api/v1/courses/", "api/v1/courses">>

\* the spellings the model goes through
Paths == SubSeq(Endpoints, 1, IF MaxPaths < Len(Endpoints) THEN MaxPaths ELSE Len(Endpoints))

\* answers of the token endpoint to CourseAPI.get_token
CourseTokenResponses ==
    {TransportError,
     [status |-> "200", body |-> [kind |-> "object", access_token |-> Str("tokA")]],
     [status |-> "200", body |-> [kind |-> "object", access_token |-> Str("tokB")]],
     [status |-> "200", body |-> [kind |-> "object"]],
     [status |-> "200", body |-> [kind |-> "unparsable"]],
     [status |-> "401", body |-> [kind |-> "object"]]}

\* CourseAPI.get_token (client id and secret configured): [token, val], token
\* being self.token afterwards
get_token(a, resp) ==
    IF resp.status = "raise" THEN [token |-> a.token, val |-> PyNone]
    ELSE IF resp.status # "200" THEN [token |-> a.token, val |-> PyNone]
    ELSE IF Json(resp.body).exc THEN [token |-> a.token, val |-> PyNone]
    ELSE LET tok == Get(resp.body, "access_token", PyNone) IN [token |-> tok, val |-> tok]

\* answers of a courses path
PathResponses ==
    {TransportError,
     [status |-> "404", body |-> [kind |-> "unparsable"]],
     [status |-> "401", body |-> [kind |-> "object"]],
     [status |-> "200", body |-> [kind |-> "unparsable"]],
     [status |-> "200", body |-> [kind |-> "object"]],
     [status |-> "200", body |-> [kind |-> "object", results |-> <<>>]]}

\* a variant that returns the body of any 200 answer that parses
PathStepAny200(resp) ==
    IF resp.status = "raise" THEN "next"
    ELSE IF resp.status = "200" THEN
        IF Json(resp.body).exc THEN "next" ELSE "return"
    ELSE IF resp.status = "401" THEN "refetch"
    ELSE "next"

\* lines 116-154: what one answer makes the loop do: return the body, fetch a token
\* anew, or go on to the next spelling
PathStep(resp) ==
    IF resp.status = "raise" THEN "next"
    ELSE IF resp.status = "200" THEN
        IF Json(resp.body).exc THEN "next"
        ELSE IF resp.body.kind = "object" /\ "results" \in DOMAIN resp.body THEN "return"
        ELSE "next"
    ELSE IF resp.status = "401" THEN "refetch"
    ELSE "next"

\* line 157: what get_courses returns when every spelling failed
EmptyListing ==
    [results |-> <<>>, pagination |-> [count |-> Num(0), next |-> PyNone, previous |-> PyNone]]

\* line 82
NoTokenError == [error |-> Str("Could not obtain access token")]

\* the token request of get_courses' first lines is made when no token is cached
CourseTokenAnswers(a) == IF ~Truthy(a.token) THEN CourseTokenResponses ELSE {NoResponse}

\* lines 79-88: the token is fetched when none is cached; the headers carry it
PathsStart ==
    /\ call = IdleCall
    /\ \E t \in CourseTokenAnswers(api) :
        LET g == IF t = NoResponse THEN [token |-> api.token, val |-> api.token]
                 ELSE get_token(api, t)
            rq == IF t = NoResponse THEN <<>>
                  ELSE <<[url |-> "oauth2/access_token", status |-> t.status]>>
        IN  /\ api' = [token |-> g.val]
            /\ requests' = rq
            /\ call' = IF Truthy(g.val)
                       THEN [op |-> "CourseAPI.get_courses", pc |-> "try", k |-> 1,
                             bearer |-> g.val]
                       ELSE [op |-> "CourseAPI.get_courses", pc |-> "done",
                             res |-> NoTokenError]
    /\ UNCHANGED cartVars

\* the answers of the token endpoint to the re-fetch that follows a 401
RefetchAnswers(resp) == IF PathStep(resp) = "refetch" THEN CourseTokenResponses ELSE {NoResponse}

\* lines 110-154: one pass of `for endpoint in endpoints`
PathsTry ==
    /\ call.op = "CourseAPI.get_courses"
    /\ call.pc = "try"
    /\ call.k <= Len(Paths)
    /\ \E resp \in PathResponses :
        \E t \in RefetchAnswers(resp) :
            LET step == PathStep(resp)
                rq == [url |-> Paths[call.k], status |-> resp.status, bearer |-> call.bearer,
                       body |-> IF resp.status = "raise" THEN "none" ELSE resp.body.kind,
                       results |-> resp.status # "raise" /\ "results" \in DOMAIN resp.body]
                g == IF step = "refetch" THEN get_token(api, t) ELSE [val |-> api.token]
            IN  /\ requests' = IF step = "refetch"
                               THEN requests \o <<rq, [url |-> "oauth2/access_token",
                                                       status |-> t.status]>>
                               ELSE Append(requests, rq)
                /\ api' = [token |-> g.val]
                /\ call' = IF step = "return"
                           THEN [op |-> "CourseAPI.get_courses", pc |-> "done",
                                 res |-> resp.body]
                           ELSE [call EXCEPT !.k = call.k + 1,
                                             !.bearer = IF step = "refetch" /\ Truthy(g.val)
                                                        THEN g.val ELSE @]
    /\ UNCHANGED cartVars

\* lines 156-157: every spelling was tried
PathsGiveUp ==
    /\ call.op = "CourseAPI.get_courses"
    /\ call.pc = "try"
    /\ call.k > Len(Paths)
    /\ call' = [op |-> "CourseAPI.get_courses", pc |-> "done", res |-> EmptyListing]
    /\ UNCHANGED <<requests, api, cartVars>>

\* the call has returned; the instance is kept for the next call
PathsEnd ==
    /\ call.op = "CourseAPI.get_courses"
    /\ call.pc = "done"
    /\ call' = IdleCall
    /\ requests' = <<>>
    /\ UNCHANGED <<api, cartVars>>

InitPaths ==
    /\ carts = <<>>
    /\ items = <<>>
    /\ ret = NoRet
    /\ wh = IdleWh
    /\ enrollLog = <<>>
    /\ api = NewCourseApi
    /\ call = IdleCall
    /\ requests = <<>>

NextPaths ==
    \/ PathsStart
    \/ PathsTry
    \/ PathsGiveUp
    \/ PathsEnd

SpecPaths == InitPaths /\ [][NextPaths]_vars

----------------------------------------------------------------------------
(* Properties of the path-variant fallback. *)

PathsCall == call.op = "CourseAPI.get_courses"

\* the positions of the log that hold a request of a courses path
PathRequests == {k \in 1 .. Len(requests) : requests[k].url # "oauth2/access_token"}

\* the token requests of the call that follow a request of a courses path
Refetches == {k \in LogOf(requests, "oauth2/access_token") : \E j \in PathRequests : j < k}

\* C14: every 401 answer of a courses path is followed by a token request whose
\* result replaces the cached token, and one get_courses call makes at most one
\* such token re-fetch, however many of its requests are answered 401.
C14_OneRefetchPerCall ==
    PathsCall =>
        /\ \A k \in PathRequests :
            requests[k].status = "401" =>
                /\ k < Len(requests)
                /\ requests[k + 1].url = "oauth2/access_token"
        /\ Cardinality(Refetches) <= 1

\* the answer of a courses path that ends the loop: 200 with an object that has results
Usable(rq) == rq.status = "200" /\ rq.body = "object" /\ rq.results

\* the k-th request of a courses path in the log
NthPath(n) == CHOOSE k \in PathRequests : Cardinality({j \in PathRequests : j <= k}) = n

\* the spellings are requested in the order of the list, each at most once
InListOrder ==
    /\ Cardinality(PathRequests) <= Len(Paths)
    /\ \A n \in 1 .. Cardinality(PathRequests) : requests[NthPath(n)].url = Paths[n]

\* C15 as stated: the spellings are requested in list order and no spelling is
\* requested after one has answered 200.
C15_Original ==
    PathsCall =>
        /\ InListOrder
        /\ \A j, k \in PathRequests : j < k => requests[j].status # "200"

\* C15, amended: the spellings are requested in list order, each at most once; the
\* loop stops at the first 200 answer whose body parses to an object with a results
\* key, which it returns, and nothing is requested after it; a 200 answer whose body
\* is no JSON or has no results is passed over like a failure, and with no usable
\* answer from any spelling the empty listing is returned.
C15_StopsAtFirstUsable200 ==
    PathsCall =>
        /\ InListOrder
        /\ \A j, k \in PathRequests : j < k => ~Usable(requests[j])
        /\ \A k \in PathRequests :
            Usable(requests[k]) =>
                /\ k = Len(requests)
                /\ call.pc = "done"
                /\ call.res = [kind |-> "object", results |-> <<>>]
        /\ (call.pc = "done" /\ call.res # NoTokenError) =>
                \/ Len(requests) \in PathRequests /\ Usable(requests[Len(requests)])
                \/ /\ call.res = EmptyListing
                   /\ Cardinality(PathRequests) = Len(Paths)

\* the first spelling answered 200 with a body that is no JSON, the second 200 with
\* a listing, which was returned
C15_Witness ==
    /\ PathsCall
    /\ Cardinality(PathRequests) = 2
    /\ requests[NthPath(1)].status = "200" /\ requests[NthPath(1)].body = "unparsable"
    /\ Usable(requests[NthPath(2)])
    /\ call.pc = "done"
    /\ call.res = [kind |-> "object", results |-> <<>>]

----------------------------------------------------------------------------
(* Checkout: create_payment_intent of app/routes/payment.py, and the cart   *)
(* requests that fill the cart it reads.                                    *)

\* the lines the checkout machine adds: prices with and without a fraction of a cent
CheckoutOffers ==
    {[mode |-> "audit", price |-> PyNone, currency |-> "USD"],
     [mode |-> "verified", price |-> Num(50000), currency |-> "USD"],
     [mode |-> "verified", price |-> Num(19999), currency |-> "USD"],
     [mode |-> "professional", price |-> Num(100004), currency |-> "USD"]}

\* int(total * 100): the fraction is dropped (Float arithmetic taken as exact)
AmountOf(t) == (t * 100) \div PriceScale

\* what stripe.PaymentIntent.create comes to: the intent, or a stripe error
StripeOutcomes == {"created", "raise"}

\* a variant of create_payment_intent without the test of line 47: a missing cart
\* gives an intent for cart 0, an empty one an intent of amount 0
CreateIntentUnchecked(cs, tbl, u, stripe) ==
    LET cart == shopping_cart(cs, u) IN
    IF stripe = "raise" THEN [status |-> 500, created |-> FALSE, error |-> "StripeError"]
    ELSE [status |-> 200, created |-> TRUE,
          intent |-> [amount |-> AmountOf(SumPrices(cart_items(tbl, cart))),
                      metadata |-> [user_id |-> u, cart_id |-> cart]]]

\* create_payment_intent for the signed-in user u: the answer and the intent created
create_payment_intent(cs, tbl, u, stripe) ==
    LET cart == shopping_cart(cs, u) IN
    IF cart = 0 \/ cart_items(tbl, cart) = <<>>
    THEN [status |-> 400, created |-> FALSE, error |-> "Cart is empty"]
    ELSE IF stripe = "raise"
    THEN [status |-> 500, created |-> FALSE, error |-> "StripeError"]
    ELSE [status |-> 200, created |-> TRUE,
          intent |-> [amount |-> AmountOf(SumPrices(cart_items(tbl, cart))),
                      metadata |-> [user_id |-> u, cart_id |-> cart]]]

\* POST /payment/create-payment-intent
CreatePaymentIntent(u) ==
    \E stripe \in StripeOutcomes :
        /\ NoRequestInFlight
        /\ ret' = [op |-> "create_payment_intent", user |-> u,
                   answer |-> create_payment_intent(carts, items, u, stripe)]
        /\ wh' = IdleWh
        /\ enrollLog' = <<>>
        /\ UNCHANGED <<carts, items, apiVars>>

\* the cart page, which shows cart.total
ViewTotal(c) ==
    /\ NoRequestInFlight
    /\ c \in CartIds
    /\ ret' = [op |-> "total", cart |-> c, val |-> total(items, c)]
    /\ wh' = IdleWh
    /\ enrollLog' = <<>>
    /\ UNCHANGED <<carts, items, apiVars>>

NextCheckout ==
    \/ \E u \in Users : CreateCart(u)
    \/ \E c \in CartIds, course_id \in Courses, offer \in CheckoutOffers :
            AddItem(c, course_id, offer)
    \/ \E c \in CartIds, course_id \in Courses : RemoveItem(c, course_id)
    \/ \E c \in CartIds : ViewTotal(c)
    \/ \E u \in Users : CreatePaymentIntent(u)

SpecCheckout == Init /\ [][NextCheckout]_vars

----------------------------------------------------------------------------
(* Properties of the checkout. *)

IntentCall == ret.op = "create_payment_intent"

\* C16: create_payment_intent for a user with no cart, or with a cart of no line,
\* answers 400 "Cart is empty" and creates no intent; an intent is created only for
\* a cart with at least one line, and its metadata name that user and that cart.
C16_EmptyCartNoIntent ==
    IntentCall =>
        LET cart == shopping_cart(carts, ret.user) IN
        /\ (cart = 0 \/ cart_items(items, cart) = <<>>) =>
                /\ ~ret.answer.created
                /\ ret.answer.status = 400
                /\ ret.answer.error = "Cart is empty"
        /\ ret.answer.created =>
                /\ cart # 0
                /\ Len(cart_items(items, cart)) >= 1
                /\ ret.answer.intent.metadata = [user_id |-> ret.user, cart_id |-> cart]
                /\ carts[cart] = ret.user

\* the user has a cart, but it holds no line, while the other user's cart holds one
C16_Witness ==
    /\ IntentCall
    /\ shopping_cart(carts, ret.user) # 0
    /\ cart_items(items, shopping_cart(carts, ret.user)) = <<>>
    /\ items # <<>>
    /\ ret.answer.status = 400

\* round(x * 100) of a total held in thousandths, a half going up
RoundedAmount(t) == (t * 100 + PriceScale \div 2) \div PriceScale

\* C17: the amount of a created intent is round(total * 100): a total whose hundredfold
\* has a fraction of a half or more gives the next integer up.
C17_AmountIsRounded ==
    (IntentCall /\ ret.answer.created) =>
        ret.answer.intent.amount =
            RoundedAmount(total(items, shopping_cart(carts, ret.user)))

\* the sum over a set of row numbers of the prices that are numbers
RECURSIVE SumAt(_, _)
SumAt(tbl, S) ==
    IF S = {} THEN 0
    ELSE LET i == CHOOSE x \in S : TRUE IN tbl[i].price.n + SumAt(tbl, S \ {i})

\* the rows of a cart whose price is not None
PricedRows(tbl, cart) ==
    {i \in 1 .. Len(tbl) : tbl[i].cart_id = cart /\ tbl[i].price # PyNone}

\* C19: Cart.total is the sum of the prices of exactly the lines of the cart whose
\* price is not None; a line whose price is None adds nothing and raises nothing.
C19_TotalSkipsNullPrices ==
    ret.op = "total" =>
        /\ ret.val = SumAt(items, PricedRows(items, ret.cart))
        /\ PricedRows(items, ret.cart) = {} => ret.val = 0

\* the cart holds a line without a price before a line with one
C19_Witness ==
    /\ ret.op = "total"
    /\ LET lines == cart_items(items, ret.cart) IN
        /\ Len(lines) = 2
        /\ lines[1].price = PyNone
        /\ lines[2].price = Num(50000)
    /\ ret.val = 50000


----------------------------------------------------------------------------
(* Concurrent requests.  Several requests are served at once (one worker    *)
(* per request, each with its own database session); a step is one query or *)
(* one commit, and the steps of different requests interleave freely.  In   *)
(* this machine call[w] is the cart request worker w is serving, wh[h] the  *)
(* webhook request handler h is serving, requests the payment intents the   *)
(* payment processor holds, enrollLog[h] the enroll calls handler h has     *)
(* made, and ret counts the rows ever inserted into cart_items, so that     *)
(* every row carries the number of its insert (seq); MaxItems bounds that   *)
(* count.                                                                   *)

\* the workers that serve cart requests, and those that serve webhook requests
Workers == {1, 2}
Handlers == {1, 2}

\* rows the carts table may hold
MaxCarts == 3
\* payment intents created: no more than there are handlers to settle them
MaxIntents == Cardinality(Handlers)

\* the line the cart route adds in the concurrent machine
ConcurrentOffers == {[mode |-> "verified", price |-> Num(50000), currency |-> "EUR"]}

\* the CartItem row add_item builds (cart.py 33-40), numbered by its insert
NewLine(n, cart, course_id, offer) ==
    [seq |-> n, cart_id |-> cart, course_id |-> course_id, mode |-> offer.mode,
     price |-> offer.price, currency |-> offer.currency]

\* nothing but call changes
OnlyCall == UNCHANGED <<carts, items, ret, wh, enrollLog, api, requests>>

\* cart.view, line 20: the read of current_user.shopping_cart
ViewBegin(w, u) ==
    /\ call[w] = IdleCall
    /\ shopping_cart(carts, u) = 0
    /\ call' = [call EXCEPT ![w] = [op |-> "view", pc |-> "create", user |-> u]]
    /\ OnlyCall

\* cart.add, line 39: the read of current_user.shopping_cart
AddBegin(w, u, course_id) ==
    /\ call[w] = IdleCall
    /\ LET cart == shopping_cart(carts, u) IN
        call' = [call EXCEPT ![w] =
                    [op |-> "add", pc |-> IF cart = 0 THEN "create" ELSE "check",
                     user |-> u, course_id |-> course_id, cart |-> cart]]
    /\ OnlyCall

\* cart.view 22-24, cart.add 41-43: the Cart row is inserted and committed
CreateRow(w) ==
    /\ call[w] # IdleCall
    /\ call[w].pc = "create"
    /\ Len(carts) < MaxCarts
    /\ carts' = Append(carts, call[w].user)
    /\ call' = [call EXCEPT ![w] =
                    IF call[w].op = "view" THEN IdleCall
                    ELSE [call[w] EXCEPT !.pc = "check", !.cart = Len(carts) + 1]]
    /\ UNCHANGED <<items, ret, wh, enrollLog, api, requests>>

\* cart.add 49-62 and add_item line 32: the course is looked up, then has_item
\* queries the table; found is whether get_course_details returned a course
AddCheck(w) ==
    /\ call[w] # IdleCall
    /\ call[w].pc = "check"
    /\ \E found \in BOOLEAN, offer \in ConcurrentOffers :
        call' = [call EXCEPT ![w] =
                    IF ~found \/ has_item(items, call[w].cart, call[w].course_id)
                    THEN IdleCall
                    ELSE [op |-> "add", pc |-> "insert", user |-> call[w].user,
                          course_id |-> call[w].course_id, cart |-> call[w].cart,
                          offer |-> offer]]
    /\ OnlyCall

\* add_item 33-43: the row is inserted and committed
AddInsert(w) ==
    /\ call[w] # IdleCall
    /\ call[w].pc = "insert"
    /\ ret.inserts < MaxItems
    /\ items' = Append(items, NewLine(ret.inserts + 1, call[w].cart, call[w].course_id,
                                      call[w].offer))
    /\ ret' = [ret EXCEPT !.inserts = ret.inserts + 1]
    /\ call' = [call EXCEPT ![w] = IdleCall]
    /\ UNCHANGED <<carts, wh, enrollLog, api, requests>>

\* cart.remove: one query and one delete, taken as one step
RemoveLine(u, course_id) ==
    /\ shopping_cart(carts, u) # 0
    /\ LET r == remove_item(items, shopping_cart(carts, u), course_id) IN
        /\ r.val
        /\ items' = r.items
    /\ UNCHANGED <<carts, ret, wh, enrollLog, api, call, requests>>

\* cart.clear: the user empties the cart
UserClear(u) ==
    /\ shopping_cart(carts, u) # 0
    /\ cart_items(items, shopping_cart(carts, u)) # <<>>
    /\ items' = clear(items, shopping_cart(carts, u))
    /\ UNCHANGED <<carts, ret, wh, enrollLog, api, call, requests>>

\* create_payment_intent 46-64: the processor keeps the intent and its metadata;
\* lines is what the cart held when the intent was created.  A user checks out once.
NewIntent(u) ==
    /\ Len(requests) < MaxIntents
    /\ \A k \in 1 .. Len(requests) : requests[k].user_id # u
    /\ LET a == create_payment_intent(carts, items, u, "created") IN
        /\ a.created
        /\ requests' = Append(requests,
                [cart_id |-> a.intent.metadata.cart_id, user_id |-> a.intent.metadata.user_id,
                 lines |-> cart_items(items, a.intent.metadata.cart_id)])
    /\ UNCHANGED <<carts, items, ret, wh, enrollLog, api, call>>

\* webhook 77-113: the payment_intent.succeeded event of intent k is delivered to
\* handler h, which verifies it, looks up the user and the cart and loads cart.items;
\* a request goes to the first handler that has served none
Deliver(h, k) ==
    /\ wh[h] = IdleWh
    /\ \A g \in Handlers : g < h => wh[g] # IdleWh
    /\ k \in 1 .. Len(requests)
    /\ wh' = [wh EXCEPT ![h] =
                [pc |-> "enrolling", intent |-> k, cart_id |-> requests[k].cart_id,
                 user_id |-> requests[k].user_id,
                 snapshot |-> cart_items(items, requests[k].cart_id), i |-> 1]]
    /\ UNCHANGED <<carts, items, ret, enrollLog, api, call, requests>>

\* webhook 115-124: one pass of the loop; enroll never raises and what it returns
\* is only logged
HandlerEnroll(h) ==
    /\ wh[h].pc = "enrolling"
    /\ wh[h].i <= Len(wh[h].snapshot)
    /\ LET item == wh[h].snapshot[wh[h].i] IN
        enrollLog' = [enrollLog EXCEPT ![h] = Append(enrollLog[h],
            [intent |-> wh[h].intent, user |-> Username(wh[h].user_id),
             cart_id |-> item.cart_id, course_id |-> item.course_id, mode |-> item.mode,
             seq |-> item.seq])]
    /\ wh' = [wh EXCEPT ![h].i = wh[h].i + 1]
    /\ UNCHANGED <<carts, items, ret, api, call, requests>>

\* webhook 126-130: cart.clear() deletes the rows the table holds for the cart now
HandlerClear(h) ==
    /\ wh[h].pc = "enrolling"
    /\ wh[h].i > Len(wh[h].snapshot)
    /\ items' = clear(items, wh[h].cart_id)
    /\ wh' = [wh EXCEPT ![h] =
                [pc |-> "done", intent |-> wh[h].intent, cart_id |-> wh[h].cart_id,
                 user_id |-> wh[h].user_id, snapshot |-> wh[h].snapshot, status |-> 200,
                 deleted |-> cart_items(items, wh[h].cart_id)]]
    /\ UNCHANGED <<carts, ret, enrollLog, api, call, requests>>

InitConcurrent ==
    /\ carts = <<>>
    /\ items = <<>>
    /\ ret = [op |-> "none", inserts |-> 0]
    /\ wh = [h \in Handlers |-> IdleWh]
    /\ enrollLog = [h \in Handlers |-> <<>>]
    /\ api = NewApi
    /\ call = [w \in Workers |-> IdleCall]
    /\ requests = <<>>

\* a cart request served alone: view creates the user's Cart row
OpenCart(u) ==
    /\ shopping_cart(carts, u) = 0
    /\ Len(carts) < MaxCarts
    /\ carts' = Append(carts, u)
    /\ UNCHANGED <<items, ret, wh, enrollLog, api, call, requests>>

\* a cart request served alone: add inserts the line when the cart has none for
\* the course
AddLine(u, course_id, offer) ==
    /\ shopping_cart(carts, u) # 0
    /\ ~has_item(items, shopping_cart(carts, u), course_id)
    /\ ret.inserts < MaxItems
    /\ items' = Append(items, NewLine(ret.inserts + 1, shopping_cart(carts, u), course_id,
                                      offer))
    /\ ret' = [ret EXCEPT !.inserts = ret.inserts + 1]
    /\ UNCHANGED <<carts, wh, enrollLog, api, call, requests>>

\* the cart requests view and add, two at a time
NextRaces ==
    \/ \E w \in Workers, u \in Users : ViewBegin(w, u)
    \/ \E w \in Workers, u \in Users, course_id \in Courses : AddBegin(w, u, course_id)
    \/ \E w \in Workers : CreateRow(w)
    \/ \E w \in Workers : AddCheck(w)
    \/ \E w \in Workers : AddInsert(w)
    \/ \E u \in Users, course_id \in Courses : RemoveLine(u, course_id)

SpecRaces == InitConcurrent /\ [][NextRaces]_vars

\* the webhook requests, two at a time, among cart and checkout requests each
\* served alone
NextSettle ==
    \/ \E u \in Users : OpenCart(u)
    \/ \E u \in Users, course_id \in Courses, offer \in ConcurrentOffers :
            AddLine(u, course_id, offer)
    \/ \E u \in Users, course_id \in Courses : RemoveLine(u, course_id)
    \/ \E u \in Users : UserClear(u)
    \/ \E u \in Users : NewIntent(u)
    \/ \E h \in Handlers, k \in 1 .. MaxIntents : Deliver(h, k)
    \/ \E h \in Handlers : HandlerEnroll(h)
    \/ \E h \in Handlers : HandlerClear(h)

SpecSettle == InitConcurrent /\ [][NextSettle]_vars


----------------------------------------------------------------------------
(* Properties of the concurrent requests. *)

\* the elements of a sequence
Range(q) == {q[i] : i \in 1 .. Len(q)}

\* handler h takes its last step, the clear
HandlerClears(h) == wh[h].pc = "enrolling" /\ wh'[h].pc = "done"

\* this step leaves the table with no line of cart c and with every line of
\* every other cart
ClearsExactly(c) ==
    /\ cart_items(items', c) = <<>>
    /\ \A d \in 1 .. Len(carts) : d # c => cart_items(items', d) = cart_items(items, d)

\* C21: clear, called by the user or by settlement, deletes all lines of its cart and
\* no line of another cart, and no Cart row is ever deleted; webhook handlers that
\* run at once for different carts each enroll only lines of their own cart, for
\* their own user, and clear only their own cart.
C21_ClearTouchesOwnCartOnly ==
    [][/\ Len(carts') >= Len(carts)
       /\ \A c \in 1 .. Len(carts) : carts'[c] = carts[c]
       /\ \A u \in Users : UserClear(u) => ClearsExactly(shopping_cart(carts, u))
       /\ \A h \in Handlers :
            /\ HandlerClears(h) => ClearsExactly(wh[h].cart_id)
            /\ enrollLog'[h] # enrollLog[h] =>
                    LET e == enrollLog'[h][Len(enrollLog'[h])] IN
                    /\ e.cart_id = wh[h].cart_id
                    /\ e.user = Username(carts[wh[h].cart_id])
                    /\ items' = items]_vars

\* handler 2 has enrolled and cleared its cart while handler 1, which began before
\* it, is still enrolling the lines of another cart, which are all in the table
C21_Witness ==
    /\ wh[2].pc = "done"
    /\ wh[2].deleted # <<>>
    /\ wh[1].pc = "enrolling"
    /\ wh[1].cart_id # wh[2].cart_id
    /\ enrollLog[1] # <<>>
    /\ cart_items(items, wh[1].cart_id) = wh[1].snapshot

\* the Cart rows of user u
CartsOf(u) == {c \in 1 .. Len(carts) : carts[c] = u}

\* C22: whatever the interleaving of a user's view and add requests, the user has at
\* most one Cart row, and exactly one once such a request has created one.
C22_OneCartPerUser == \A u \in Users : Cardinality(CartsOf(u)) <= 1

\* C23: under every interleaving of two add requests, no two rows of cart_items
\* share (cart_id, course_id).
C23_NoDuplicateUnderInterleaving ==
    \A i, j \in 1 .. Len(items) :
        (items[i].cart_id = items[j].cart_id /\ items[i].course_id = items[j].course_id)
            => items[i].seq = items[j].seq

\* C24: the courses a settlement has enrolled are the courses of the lines the cart
\* held when the payment intent of its event was created.
C24_EnrolledIsWhatWasCharged ==
    \A h \in Handlers :
        wh[h].pc = "done" =>
            {e.course_id : e \in Range(enrollLog[h])}
                = {l.course_id : l \in Range(requests[wh[h].intent].lines)}

\* the enroll calls made so far, each with its handler and its place in the log
EnrollCalls == {x \in Handlers \X (1 .. MaxItems) : x[2] <= Len(enrollLog[x[1]])}

\* C25: across all deliveries of one payment_intent.succeeded event, enroll is called
\* at most once for a cart line.
C25_EnrollOncePerLine ==
    \A x, y \in EnrollCalls :
        (/\ enrollLog[x[1]][x[2]].intent = enrollLog[y[1]][y[2]].intent
         /\ enrollLog[x[1]][x[2]].seq = enrollLog[y[1]][y[2]].seq) => x = y

\* C26: every line a settlement's clear deleted had an enroll call made for it by
\* that settlement.
C26_ClearedLinesWereEnrolled ==
    \A h \in Handlers :
        wh[h].pc = "done" =>
            \A l \in Range(wh[h].deleted) : \E e \in Range(enrollLog[h]) : e.seq = l.seq

====
